---------------------------- MODULE Spec2Model ----------------------------
(***************************************************************************)
(* A model of the gaesup-state core (packages/core-rust).                  *)
(*                                                                         *)
(*   Spec     : lib.rs, the global store: the caller's thread (dispatch,   *)
(*              select, subscribe, unsubscribe, snapshots), the batch      *)
(*              worker thread fed by the channel, and the queue of         *)
(*              notification tasks.  A step is one access to shared data   *)
(*              (GLOBAL_STATE, the channel, SUBSCRIPTIONS), so the two     *)
(*              threads interleave as the code lets them.                  *)
(*   SpecPool : memory.rs, one MemoryPool driven by allocate, deallocate   *)
(*              and garbage_collect while the clock advances.              *)
(*                                                                         *)
(* Sequences are 1-based here; the Rust vectors are 0-based, so a block    *)
(* index i of the source is i + 1 in the model.  u32 arithmetic is kept    *)
(* unbounded where the operands are bounded by the pool size.              *)
(***************************************************************************)
EXTENDS Integers, Sequences, FiniteSets, TLC

VARIABLES
    \* ---- lib.rs: the global store ----
    root,          \* GLOBAL_STATE: the root the ArcSwap points to
    subs,          \* SUBSCRIPTIONS["global"]: Vec of callbacks (<<>>: no entry)
    chan,          \* the unbounded channel of BatchCommands
    tasks,         \* notification tasks handed to spawn_local, not yet run
    snapshots,     \* SNAPSHOTS: snapshot id -> serialised bytes
    nextSub,       \* the next fresh subscription id (a uuid in the code)
    nextSnap,      \* the next fresh snapshot id (a uuid in the code)
    mpc,           \* caller's thread: where it is inside the current call
    mop,           \* caller's thread: the locals of the current call
    wpc,           \* worker thread: "recv", "load", "store", "notify", "dead"
    wcmd,          \* worker thread: the updates of the command being applied
    wi,            \* worker thread: index of the update being applied
    wcur,          \* worker thread: current_state loaded by apply_update
    calls,         \* history: number of calls made by the host so far
    ideal,         \* history: the commits so far, each applied at its swap
    partial,       \* history: root holds some, not all, updates of a batch
    wpre,          \* history: the root when the worker started its command
    wowed,         \* history: callbacks registered at the worker's last swap
    registered,    \* history: subscriptions made and not themselves removed
    snapRoot,      \* history: snapshot id -> the root when it was taken
    snapOrder,     \* history: the snapshot ids in the order of their creation
    event,         \* history: the last thing the host saw
    fanout,        \* history: the last fan-out that was scheduled: the callbacks
                   \* it goes to, those it is owed to, and those registered
                   \* when the commit's root was installed
    writer,        \* history: the operation that installed the current root
    applied,       \* history: the last apply_update the worker went through
    \* ---- lib.rs: one BatchUpdate object ----
    updates,       \* BatchUpdate.updates: Vec<(String, Value)>
    added,         \* history: the arguments of the add calls, in call order
    \* ---- security.rs: SecurityManager ----
    manager,       \* container_contexts, security_events and audit_log
    clock,         \* the time read by Utc::now(), in units of 8 ms
    elapses,       \* history: number of times the clock was advanced
    secCalls,      \* history: number of calls made to the manager so far
    secLast,       \* history: the last call, its arguments and its result
    \* ---- memory.rs: MemoryPool ----
    blocks,        \* Vec<MemoryBlock>
    free_blocks,   \* Vec<usize>: indices of the free blocks
    used_size,     \* u32
    now,           \* the clock read by Utc::now(), in minutes
    poolCalls,     \* history: number of pool calls made so far
    lastCall,      \* history: the last pool call, its argument and result
    \* ---- memory.rs: MemoryManager ----
    memory_manager,\* container_pools, container_stats and total_allocated
    memNow,        \* the clock read by Utc::now(), in minutes
    memCalls,      \* history: number of calls made to the manager so far
    memLast,       \* history: the last call, its arguments and its result
    \* ---- state.rs: StateManager ----
    state_manager, \* container_states, state_history, state_cache, ...
    stCalls,       \* history: number of calls made so far; also the clock
    stLast,        \* history: the last call, its arguments and its result
    \* ---- metrics.rs: one TimeSeries and the MetricsCollector ----
    series,        \* a TimeSeries: samples, max_samples, retention_duration
    seriesAdded,   \* history: the samples given to add_sample, in call order
    collector,     \* container_metrics, time_series, alert_thresholds, ...
    perfNow,       \* the clock read by get_current_time(), in ms
    metCalls,      \* history: number of calls made so far
    metLast,       \* history: the last call, its arguments and its result
    \* ---- runtime.rs: RuntimeEngine ----
    engine,        \* current_runtime, runtime_stats, auto_selection_enabled, ...
    rtCalls,       \* history: number of calls made to the engine so far
    rtLast,        \* history: the last call, its arguments and its result
    \* ---- container.rs: one WasmContainer ----
    container,     \* status, function_cache, memory_usage, state, last_accessed
    jsState,       \* the count of the _state object the mock functions keep
    ctCalls,       \* history: number of calls made so far; also the clock
    ctLast         \* history: the last call, its argument and its result

poolVars == <<blocks, free_blocks, used_size, now, poolCalls, lastCall>>

rootVars == <<root, ideal, partial, writer>>

subVars == <<subs, nextSub, registered>>

snapVars == <<snapshots, nextSnap, snapRoot, snapOrder>>

workerVars == <<wpc, wcmd, wi, wcur, wpre, wowed, applied>>

storeVars == <<rootVars, subVars, snapVars, workerVars, chan, tasks, mpc, mop,
               calls, event, fanout>>

batchVars == <<updates, added>>

secVars == <<manager, clock, elapses, secCalls, secLast>>

memVars == <<memory_manager, memNow, memCalls, memLast>>

stVars == <<state_manager, stCalls, stLast>>

metVars == <<series, seriesAdded, collector, perfNow, metCalls, metLast>>

rtVars == <<engine, rtCalls, rtLast>>

ctVars == <<container, jsState, ctCalls, ctLast>>

vars ==
    <<storeVars, batchVars, poolVars, secVars, memVars, stVars, metVars, rtVars,
      ctVars>>

\* what the actions of one component leave alone
notStore ==
    <<batchVars, poolVars, secVars, memVars, stVars, metVars, rtVars,
      ctVars>>

notBatch ==
    <<poolVars, secVars, memVars, stVars, metVars, rtVars,
      ctVars>>

notPool ==
    <<storeVars, batchVars, secVars, memVars, stVars, metVars, rtVars,
      ctVars>>

notSec ==
    <<storeVars, batchVars, poolVars, memVars, stVars, metVars, rtVars,
      ctVars>>

notMem ==
    <<storeVars, batchVars, poolVars, secVars, stVars, metVars, rtVars,
      ctVars>>

notState ==
    <<storeVars, batchVars, poolVars, secVars, memVars, metVars, rtVars,
      ctVars>>

notMet ==
    <<storeVars, batchVars, poolVars, secVars, memVars, stVars, rtVars, ctVars>>

notRt ==
    <<storeVars, batchVars, poolVars, secVars, memVars, stVars, metVars, ctVars>>

notCt ==
    <<storeVars, batchVars, poolVars, secVars, memVars, stVars, metVars, rtVars>>

(***************************************************************************)
(* Bounds of the model.                                                    *)
(***************************************************************************)
MaxCalls == 3
MaxSubs == 2
MaxSnaps == 1
PoolSize == 4
MaxPoolCalls == 5
MaxTicks == 1
MaxSecCalls == 4
MaxElapses == 1
MaxMemCalls == 4
MaxMemTicks == 1
MaxStateCalls == 4
MaxMetCalls == 4
MaxMetTicks == 3
MaxRtCalls == 3
MaxCtCalls == 5

(***************************************************************************)
(* Program constants.                                                      *)
(***************************************************************************)
GcMinutes == 30

\* 2^32 bytes in units of 16 MiB: where the u32 byte counts wrap around
U32Bytes == 256

\* 2^32 ms in units of 8 ms: where (elapsed ms) as u32 wraps around
U32Millis == 536870912

\* MemoryManager::new: global_limit, 512 MiB in units of 16 MiB
GlobalLimit == 32

\* MemoryManager::new: gc_threshold, in percent
GcThreshold == 80

\* cleanup: the number of snapshots above which it removes some
SnapshotCeiling == 50

\* cleanup: the number of snapshots it keeps
SnapshotsKept == 25

\* 1024 * 1024 bytes
MiB == 1048576

\* StateManager::initialize_container: StateHistory::new(50, 10 MiB)
HistoryMaxSnapshots == 50

\* StateManager::new: max_memory_usage, in units of 1 MiB
MaxMemoryMiB == 100

\* StateSnapshot::new: the version every snapshot is given
FirstVersion == 1

\* record_function_call: the call count above which an event is logged
SuspiciousCalls == 1000

\* Duration::hours(1).num_milliseconds()
HourMillis == 3600000

\* PerformanceMetrics::new: f64::MAX, above every execution time of the model
F64Max == 2147483647

\* register_container: TimeSeries::new(1000, 24)
SeriesMaxSamples == 1000

SeriesRetentionHours == 24

\* 2^32 bytes in units of 1 GiB: where a u32 byte count wraps around
U32GiB == 4

\* create_mock_module: the memory of the mock module, in bytes
MockMemory == 1024

(***************************************************************************)
(* memory.rs: MemoryPool                                                   *)
(***************************************************************************)
MemoryBlock(offset, size, is_free, allocated_at) ==
    [offset |-> offset, size |-> size, is_free |-> is_free,
     allocated_at |-> allocated_at]

Min(S) == CHOOSE x \in S : \A y \in S : x <= y

RemoveAt(s, j) == [k \in 1..(Len(s) - 1) |-> IF k < j THEN s[k] ELSE s[k + 1]]

\* free_blocks.retain(|&idx| idx != j)
Retain(fb, j) == SelectSeq(fb, LAMBDA idx : idx # j)

\* the pairs (i, j), i < j, of free blocks with blocks[i] ending where
\* blocks[j] starts: what the two nested loops of coalesce look for
MergePairs(bs) ==
    {p \in (1..Len(bs)) \X (1..Len(bs)) :
        /\ p[1] < p[2]
        /\ bs[p[1]].is_free
        /\ bs[p[2]].is_free
        /\ bs[p[1]].offset + bs[p[1]].size = bs[p[2]].offset}

\* the first pair the loops reach: least i, then least j
FirstMergePair(bs) ==
    LET i == Min({p[1] : p \in MergePairs(bs)})
        j == Min({p[2] : p \in {q \in MergePairs(bs) : q[1] = i}})
    IN  <<i, j>>

RECURSIVE coalesce(_, _)
coalesce(bs, fb) ==
    IF MergePairs(bs) = {} THEN [blocks |-> bs, free_blocks |-> fb]
    ELSE LET p  == FirstMergePair(bs)
             i  == p[1]
             j  == p[2]
             merged == [bs EXCEPT ![i].size = bs[i].size + bs[j].size]
             kept   == Retain(fb, j)
         IN  coalesce(RemoveAt(merged, j),
                      [k \in 1..Len(kept) |->
                          IF kept[k] > j THEN kept[k] - 1 ELSE kept[k]])

\* positions of free_blocks whose block passes the test of the allocate loop
FitPositions(bs, fb, size) ==
    {k \in 1..Len(fb) :
        /\ fb[k] <= Len(bs)
        /\ bs[fb[k]].is_free
        /\ bs[fb[k]].size >= size}

Max(S) == CHOOSE x \in S : \A y \in S : x >= y

\* mutant: the last fitting entry of the free list instead of the first
ChooseFitLast(bs, fb, size) == Max(FitPositions(bs, fb, size))

ChooseFit(bs, fb, size) == Min(FitPositions(bs, fb, size))

allocate(size) ==
    /\ poolCalls < MaxPoolCalls
    /\ poolCalls' = poolCalls + 1
    /\ IF FitPositions(blocks, free_blocks, size) = {}
       THEN /\ lastCall' = [op |-> "allocate", arg |-> size, ok |-> FALSE, ret |-> 0]
            /\ UNCHANGED <<blocks, free_blocks, used_size>>
       ELSE LET block_idx == free_blocks[ChooseFit(blocks, free_blocks, size)]
                offset    == blocks[block_idx].offset
                old_size  == blocks[block_idx].size
                taken     == [blocks EXCEPT ![block_idx] =
                                 MemoryBlock(offset, size, FALSE, now)]
            IN  /\ IF old_size > size
                   THEN /\ blocks' = Append(taken,
                               MemoryBlock(offset + size, old_size - size, TRUE, now))
                        /\ free_blocks' =
                               Retain(Append(free_blocks, Len(blocks) + 1), block_idx)
                   ELSE /\ blocks' = taken
                        /\ free_blocks' = Retain(free_blocks, block_idx)
                /\ used_size' = used_size + size
                /\ lastCall' = [op |-> "allocate", arg |-> size, ok |-> TRUE,
                                ret |-> offset]
    /\ UNCHANGED now
    /\ UNCHANGED notPool

\* indices of the allocated blocks that start at offset
Allocated(bs, offset) ==
    {i \in 1..Len(bs) : bs[i].offset = offset /\ ~bs[i].is_free}

Saturating(n) == IF n < 0 THEN 0 ELSE n

deallocate(offset) ==
    /\ poolCalls < MaxPoolCalls
    /\ poolCalls' = poolCalls + 1
    /\ IF Allocated(blocks, offset) = {}
       THEN /\ lastCall' = [op |-> "deallocate", arg |-> offset, ok |-> FALSE, ret |-> 0]
            /\ UNCHANGED <<blocks, free_blocks, used_size>>
       ELSE LET idx   == Min(Allocated(blocks, offset))
                freed == [blocks EXCEPT ![idx].is_free = TRUE]
                after == coalesce(freed, Append(free_blocks, idx))
            IN  /\ blocks' = after.blocks
                /\ free_blocks' = after.free_blocks
                /\ used_size' = Saturating(used_size - blocks[idx].size)
                /\ lastCall' = [op |-> "deallocate", arg |-> offset, ok |-> TRUE,
                                ret |-> 0]
    /\ UNCHANGED now
    /\ UNCHANGED notPool

\* mutant: the sweep forgets that allocated blocks must stay
RetainedRecentOnly(bs, cutoff_time) ==
    SelectSeq(bs, LAMBDA block : block.allocated_at > cutoff_time)

\* blocks.retain(|block| !block.is_free || block.allocated_at > cutoff_time)
Retained(bs, cutoff_time) ==
    SelectSeq(bs, LAMBDA block : ~block.is_free \/ block.allocated_at > cutoff_time)

\* the indices of the free blocks, in index order
FreeIndices(bs) ==
    LET F[k \in 0..Len(bs)] ==
            IF k = 0 THEN <<>>
            ELSE IF bs[k].is_free THEN Append(F[k - 1], k) ELSE F[k - 1]
    IN  F[Len(bs)]

garbage_collect ==
    /\ poolCalls < MaxPoolCalls
    /\ poolCalls' = poolCalls + 1
    /\ LET kept  == Retained(blocks, now - GcMinutes)
           after == coalesce(kept, FreeIndices(kept))
       IN  /\ blocks' = after.blocks
           /\ free_blocks' = after.free_blocks
           /\ lastCall' = [op |-> "garbage_collect", arg |-> 0, ok |-> TRUE,
                           ret |-> Saturating(Len(blocks) - Len(after.blocks))]
    /\ UNCHANGED <<used_size, now>>
    /\ UNCHANGED notPool

\* time passes between two calls
Tick ==
    /\ now < MaxTicks * GcMinutes
    /\ now' = now + GcMinutes
    /\ UNCHANGED <<blocks, free_blocks, used_size, poolCalls, lastCall>>
    /\ UNCHANGED notPool

\* MemoryPool::new(pool_id, PoolSize)
InitPool ==
    /\ blocks = <<MemoryBlock(0, PoolSize, TRUE, 0)>>
    /\ free_blocks = <<1>>
    /\ used_size = 0
    /\ now = 0
    /\ poolCalls = 0
    /\ lastCall = [op |-> "new", arg |-> PoolSize, ok |-> TRUE, ret |-> 0]

(***************************************************************************)
(* memory.rs: MemoryManager.  Sizes are in units of 16 MiB.                *)
(***************************************************************************)
MemIds == {"k", "j"}

MemSizes == {8, 16, 24, 248}

BlockSizes == {4, 8}

BlockOffsets == {0, 2, 4}

\* MemoryPool::new(pool_id, size) at time allocated_at
MemoryPool(pool_id, size, allocated_at) ==
    [pool_id |-> pool_id, total_size |-> size, used_size |-> 0,
     blocks |-> <<MemoryBlock(0, size, TRUE, allocated_at)>>,
     free_blocks |-> <<1>>]

\* MemoryStats::new(allocated)
MemoryStats(allocated) ==
    [used |-> 0, allocated |-> allocated, peak |-> 0, allocations |-> 0,
     deallocations |-> 0, gc_runs |-> 0]

\* HashMap::insert
MapInsert(map, key, value) ==
    [c \in DOMAIN map \cup {key} |-> IF c = key THEN value ELSE map[c]]

\* HashMap::remove
MapRemove(map, key) == [c \in DOMAIN map \ {key} |-> map[c]]

\* MemoryPool::garbage_collect on one pool of the manager
pool_garbage_collect(pool, time) ==
    LET kept  == Retained(pool.blocks, time - GcMinutes)
        after == coalesce(kept, FreeIndices(kept))
    IN  [pool EXCEPT !.blocks = after.blocks, !.free_blocks = after.free_blocks]

\* MemoryManager::garbage_collect: gc_container for every pool
manager_garbage_collect(mm, time) ==
    [mm EXCEPT
        !.container_pools =
            [c \in DOMAIN mm.container_pools |->
                pool_garbage_collect(mm.container_pools[c], time)],
        !.container_stats =
            [c \in DOMAIN mm.container_stats |->
                IF c \in DOMAIN mm.container_pools
                THEN [mm.container_stats[c] EXCEPT !.gc_runs = @ + 1]
                ELSE mm.container_stats[c]]]

\* MemoryManager::check_gc_trigger
check_gc_trigger(mm, time) ==
    IF mm.total_allocated * 100 > GcThreshold * mm.global_limit
    THEN manager_garbage_collect(mm, time)
    ELSE mm

\* MemoryPool::allocate on one pool of the manager
pool_allocate(pool, size, time) ==
    IF FitPositions(pool.blocks, pool.free_blocks, size) = {}
    THEN [ok |-> FALSE, offset |-> 0, pool |-> pool]
    ELSE LET block_idx == pool.free_blocks[ChooseFit(pool.blocks, pool.free_blocks,
                                                     size)]
             offset    == pool.blocks[block_idx].offset
             old_size  == pool.blocks[block_idx].size
             taken     == [pool.blocks EXCEPT ![block_idx] =
                              MemoryBlock(offset, size, FALSE, time)]
         IN  [ok |-> TRUE, offset |-> offset,
              pool |->
                 IF old_size > size
                 THEN [pool EXCEPT
                          !.blocks = Append(taken,
                              MemoryBlock(offset + size, old_size - size, TRUE, time)),
                          !.free_blocks =
                              Retain(Append(@, Len(pool.blocks) + 1), block_idx),
                          !.used_size = @ + size]
                 ELSE [pool EXCEPT !.blocks = taken,
                                   !.free_blocks = Retain(@, block_idx),
                                   !.used_size = @ + size]]

\* mutant: the block that starts at offset is released whether or not it
\* is allocated
pool_deallocateAnyBlock(pool, offset) ==
    LET starts == {i \in 1..Len(pool.blocks) : pool.blocks[i].offset = offset}
    IN  IF starts = {} THEN [ok |-> FALSE, pool |-> pool]
        ELSE LET idx   == Min(starts)
                 freed == [pool.blocks EXCEPT ![idx].is_free = TRUE]
                 after == coalesce(freed, Append(pool.free_blocks, idx))
             IN  [ok |-> TRUE,
                  pool |-> [pool EXCEPT
                      !.blocks = after.blocks,
                      !.free_blocks = after.free_blocks,
                      !.used_size = Saturating(@ - pool.blocks[idx].size)]]

\* MemoryPool::deallocate on one pool of the manager
pool_deallocate(pool, offset) ==
    IF Allocated(pool.blocks, offset) = {} THEN [ok |-> FALSE, pool |-> pool]
    ELSE LET idx   == Min(Allocated(pool.blocks, offset))
             freed == [pool.blocks EXCEPT ![idx].is_free = TRUE]
             after == coalesce(freed, Append(pool.free_blocks, idx))
         IN  [ok |-> TRUE,
              pool |-> [pool EXCEPT
                  !.blocks = after.blocks,
                  !.free_blocks = after.free_blocks,
                  !.used_size = Saturating(@ - pool.blocks[idx].size)]]

\* MemoryStats::record_allocation
record_allocation(stats, size) ==
    [stats EXCEPT !.allocations = @ + 1,
                  !.used = @ + size,
                  !.peak = IF stats.used + size > @ THEN stats.used + size ELSE @]

\* MemoryStats::record_deallocation
record_deallocation(stats, size) ==
    [stats EXCEPT !.deallocations = @ + 1, !.used = Saturating(@ - size)]

MemCalled(op, container_id, arg, ok, err) ==
    [op |-> op, id |-> container_id, arg |-> arg, ok |-> ok, err |-> err]

MemIdle == memCalls < MaxMemCalls

\* MemoryManager::allocate_container; total_allocated + size is a u32 sum:
\* it panics in a build with overflow checks and wraps in one without
allocate_container(container_id, size, overflow_checks) ==
    /\ MemIdle
    /\ memCalls' = memCalls + 1
    /\ LET sum == memory_manager.total_allocated + size
       IN  IF sum >= U32Bytes /\ overflow_checks
           THEN /\ memLast' = MemCalled("allocate_container", container_id, size,
                                        FALSE, "panic")
                /\ UNCHANGED memory_manager
           ELSE IF sum % U32Bytes > memory_manager.global_limit
           THEN /\ memLast' = MemCalled("allocate_container", container_id, size,
                                        FALSE, "Global memory limit exceeded")
                /\ UNCHANGED memory_manager
           ELSE /\ memory_manager' =
                       check_gc_trigger(
                           [memory_manager EXCEPT
                               !.container_pools =
                                   MapInsert(@, container_id,
                                             MemoryPool(container_id, size, memNow)),
                               !.container_stats =
                                   MapInsert(@, container_id, MemoryStats(size)),
                               !.total_allocated = sum % U32Bytes],
                           memNow)
                /\ memLast' = MemCalled("allocate_container", container_id, size,
                                        TRUE, "")
    /\ UNCHANGED memNow
    /\ UNCHANGED notMem

\* MemoryManager::deallocate_container
deallocate_container(container_id) ==
    /\ MemIdle
    /\ memCalls' = memCalls + 1
    /\ memory_manager' =
           [memory_manager EXCEPT
               !.container_pools = MapRemove(@, container_id),
               !.container_stats = MapRemove(@, container_id),
               !.total_allocated =
                   IF container_id \in DOMAIN memory_manager.container_pools
                   THEN Saturating(@ - memory_manager.container_pools
                                           [container_id].total_size)
                   ELSE @]
    /\ memLast' = MemCalled("deallocate_container", container_id, 0, TRUE, "")
    /\ UNCHANGED memNow
    /\ UNCHANGED notMem

\* MemoryManager::allocate_block
allocate_block(container_id, size) ==
    /\ MemIdle
    /\ memCalls' = memCalls + 1
    /\ IF container_id \notin DOMAIN memory_manager.container_pools
       THEN /\ memLast' = MemCalled("allocate_block", container_id, size, FALSE,
                                    "Container not found")
            /\ UNCHANGED memory_manager
       ELSE LET done == pool_allocate(memory_manager.container_pools[container_id],
                                      size, memNow)
            IN  IF ~done.ok
                THEN /\ memLast' = MemCalled("allocate_block", container_id, size,
                                             FALSE, "Out of memory")
                     /\ UNCHANGED memory_manager
                ELSE /\ memory_manager' =
                            [memory_manager EXCEPT
                                !.container_pools[container_id] = done.pool,
                                !.container_stats =
                                    IF container_id \in DOMAIN @
                                    THEN [@ EXCEPT ![container_id] =
                                             record_allocation(@, size)]
                                    ELSE @]
                     /\ memLast' = MemCalled("allocate_block", container_id, size,
                                             TRUE, "")
    /\ UNCHANGED memNow
    /\ UNCHANGED notMem

\* MemoryManager::deallocate_block
deallocate_block(container_id, offset) ==
    /\ MemIdle
    /\ memCalls' = memCalls + 1
    /\ IF container_id \notin DOMAIN memory_manager.container_pools
       THEN /\ memLast' = MemCalled("deallocate_block", container_id, offset,
                                    FALSE, "Container not found")
            /\ UNCHANGED memory_manager
       ELSE LET pool == memory_manager.container_pools[container_id]
                block_size ==
                    IF Allocated(pool.blocks, offset) = {} THEN 0
                    ELSE pool.blocks[Min(Allocated(pool.blocks, offset))].size
                done == pool_deallocate(pool, offset)
            IN  IF ~done.ok
                THEN /\ memLast' = MemCalled("deallocate_block", container_id,
                                             offset, FALSE, "Invalid memory address")
                     /\ UNCHANGED memory_manager
                ELSE /\ memory_manager' =
                            [memory_manager EXCEPT
                                !.container_pools[container_id] = done.pool,
                                !.container_stats =
                                    IF container_id \in DOMAIN @
                                    THEN [@ EXCEPT ![container_id] =
                                             record_deallocation(@, block_size)]
                                    ELSE @]
                     /\ memLast' = MemCalled("deallocate_block", container_id,
                                             offset, TRUE, "")
    /\ UNCHANGED memNow
    /\ UNCHANGED notMem

\* MemoryManager::cleanup
memory_cleanup ==
    /\ MemIdle
    /\ memCalls' = memCalls + 1
    /\ memory_manager' = [memory_manager EXCEPT !.container_pools = <<>>,
                                                !.container_stats = <<>>,
                                                !.total_allocated = 0]
    /\ memLast' = MemCalled("cleanup", "", 0, TRUE, "")
    /\ UNCHANGED memNow
    /\ UNCHANGED notMem

\* time passes between two calls
MemTick ==
    /\ memNow < MaxMemTicks * GcMinutes
    /\ memNow' = memNow + GcMinutes
    /\ UNCHANGED <<memory_manager, memCalls, memLast>>
    /\ UNCHANGED notMem

\* MemoryManager::new
InitMem ==
    /\ memory_manager = [container_pools |-> <<>>, container_stats |-> <<>>,
                         global_limit |-> GlobalLimit, total_allocated |-> 0]
    /\ memNow = 0
    /\ memCalls = 0
    /\ memLast = MemCalled("new", "", 0, TRUE, "")

(***************************************************************************)
(* state.rs: StateValue, StateSnapshot, StateHistory and StateManager.     *)
(* Sizes are in bytes.  A StateValue::String is kept as its length and the *)
(* character it is filled with.                                            *)
(***************************************************************************)
StateString(len, fill) == [kind |-> "String", len |-> len, fill |-> fill]

StateIds == {"a", "b"}

StateInputs ==
    {StateString(4 * MiB, "x"), StateString(4 * MiB, "y"),
     StateString(43 * MiB, "x"), StateString(60 * MiB, "x")}

Versions == {1, 2}

\* StateValue::compress: serde_json::to_vec of the externally tagged enum,
\* {"String":"xx...x"}: thirteen bytes around the characters
compress(state) == [len |-> state.len + 13, text |-> state]

\* StateValue::equals, for two strings
equals(state, other) == state.kind = other.kind /\ state = other

\* StateValue::size, for a string
value_size(state) == state.len

\* StateSnapshot::new at time timestamp
StateSnapshot(container_id, state, timestamp) ==
    [container_id |-> container_id, state |-> state, timestamp |-> timestamp,
     version |-> FirstVersion, compressed_data |-> compress(state)]

\* StateSnapshot::size
snapshot_size(snapshot) == snapshot.compressed_data.len

\* StateHistory::new
StateHistory(max_snapshots, max_size) ==
    [snapshots |-> <<>>, max_snapshots |-> max_snapshots, total_size |-> 0,
     max_size |-> max_size]

\* the while loop of add_snapshot: remove(0) until both ceilings hold
RECURSIVE evict(_)
evict(history) ==
    IF \/ Len(history.snapshots) > history.max_snapshots
       \/ history.total_size > history.max_size
    THEN evict([history EXCEPT
                   !.snapshots = Tail(@),
                   !.total_size =
                       Saturating(@ - snapshot_size(Head(history.snapshots)))])
    ELSE history

\* StateHistory::add_snapshot
add_snapshot(history, snapshot) ==
    evict([history EXCEPT !.total_size = @ + snapshot_size(snapshot),
                          !.snapshots = Append(@, snapshot)])

\* StateHistory::get_by_version: iter().find, the first match
get_by_version(history, version) ==
    LET found == {i \in 1..Len(history.snapshots) :
                     history.snapshots[i].version = version}
    IN  IF found = {} THEN <<>> ELSE <<history.snapshots[Min(found)]>>

\* snapshots.iter().map(|s| s.size()).sum()
RECURSIVE sizes_sum(_)
sizes_sum(snaps) ==
    IF snaps = <<>> THEN 0
    ELSE snapshot_size(Head(snaps)) + sizes_sum(Tail(snaps))

\* values().map(size).sum() over a HashMap
RECURSIVE values_sum(_)
values_sum(sizes) ==
    IF DOMAIN sizes = {} THEN 0
    ELSE LET c == CHOOSE d \in DOMAIN sizes : TRUE
         IN  sizes[c] + values_sum(MapRemove(sizes, c))

\* the sum update_memory_usage computes
memory_usage(sm) ==
    values_sum([c \in DOMAIN sm.container_states |->
                   value_size(sm.container_states[c])])
      + values_sum([c \in DOMAIN sm.state_cache |-> sm.state_cache[c].len])
      + values_sum([c \in DOMAIN sm.state_history |->
                       sm.state_history[c].total_size])

\* containers_by_age.iter().take(5): the histories with a latest snapshot,
\* the five whose latest snapshot is the oldest
containers_by_age(sm) ==
    LET latest(c) == sm.state_history[c].snapshots
                         [Len(sm.state_history[c].snapshots)].timestamp
        dated == {c \in DOMAIN sm.state_history :
                     sm.state_history[c].snapshots # <<>>}
    IN  {c \in dated :
            Cardinality({d \in dated : latest(d) < latest(c)}) < 5}

\* emergency_cleanup up to its closing update_memory_usage: truncate keeps
\* the first half of each history; the cache loses five entries above ten
emergency_cleanup(sm) ==
    LET halved(history) ==
            LET truncated == SubSeq(history.snapshots, 1,
                                    Len(history.snapshots) \div 2)
            IN  [history EXCEPT !.snapshots = truncated,
                                !.total_size = sizes_sum(truncated)]
        keys == DOMAIN sm.state_cache
        taken == IF Cardinality(keys) > 10
                 THEN CHOOSE T \in SUBSET keys : Cardinality(T) = 5
                 ELSE {}
    IN  [sm EXCEPT
            !.state_history =
                [c \in DOMAIN sm.state_history |->
                    IF c \in containers_by_age(sm)
                    THEN halved(sm.state_history[c])
                    ELSE sm.state_history[c]],
            !.state_cache = [c \in keys \ taken |-> sm.state_cache[c]]]

\* StateManager::update_memory_usage; it calls emergency_cleanup, which
\* calls it again: when a cleanup frees nothing the recursion has no end
\* and the stack overflows
RECURSIVE update_memory_usage(_)
update_memory_usage(sm) ==
    LET measured == [sm EXCEPT !.total_memory_usage = memory_usage(sm)]
        cleaned == emergency_cleanup(measured)
    IN  IF measured.total_memory_usage <= measured.max_memory_usage
        THEN [overflow |-> FALSE, sm |-> measured]
        ELSE IF cleaned = measured
        THEN [overflow |-> TRUE, sm |-> measured]
        ELSE update_memory_usage(cleaned)

\* StateManager::create_snapshot
create_state_snapshot(sm, container_id, state, timestamp) ==
    IF container_id \in DOMAIN sm.state_history
    THEN [sm EXCEPT !.state_history[container_id] =
             add_snapshot(@, StateSnapshot(container_id, state, timestamp))]
    ELSE sm

\* StateManager::update_cache
update_cache(sm, container_id, state) ==
    [sm EXCEPT !.state_cache = MapInsert(@, container_id, compress(state))]

StCalled(op, container_id, arg, ok, err) ==
    [op |-> op, id |-> container_id, arg |-> arg, ok |-> ok, err |-> err]

StackOverflow == "stack overflow"

\* a call can be made: the process has not been aborted
StIdle == stCalls < MaxStateCalls /\ stLast.err # StackOverflow

\* the end of a call that finishes with update_memory_usage
Measured(op, container_id, arg, sm) ==
    LET done == update_memory_usage(sm)
    IN  /\ state_manager' = done.sm
        /\ stLast' = IF done.overflow
                     THEN StCalled(op, container_id, arg, FALSE, StackOverflow)
                     ELSE StCalled(op, container_id, arg, TRUE, "")

\* StateManager::initialize_container
initialize_container(container_id, initial_state) ==
    /\ StIdle
    /\ stCalls' = stCalls + 1
    /\ Measured("initialize_container", container_id, initial_state,
                create_state_snapshot(
                    [state_manager EXCEPT
                        !.container_states =
                            MapInsert(@, container_id, initial_state),
                        !.state_history =
                            MapInsert(@, container_id,
                                      StateHistory(HistoryMaxSnapshots, 10 * MiB)),
                        !.subscribers = MapInsert(@, container_id, <<>>)],
                    container_id, initial_state, stCalls'))
    /\ UNCHANGED notState

\* StateManager::update_container
update_container(container_id, new_state) ==
    /\ StIdle
    /\ stCalls' = stCalls + 1
    /\ IF /\ container_id \in DOMAIN state_manager.container_states
          /\ ~equals(state_manager.container_states[container_id], new_state)
       THEN Measured("update_container", container_id, new_state,
                     update_cache(
                         create_state_snapshot(
                             [state_manager EXCEPT
                                 !.container_states[container_id] = new_state],
                             container_id, new_state, stCalls'),
                         container_id, new_state))
       ELSE /\ stLast' = StCalled("update_container", container_id, new_state,
                                  TRUE, "")
            /\ UNCHANGED state_manager
    /\ UNCHANGED notState

\* StateManager::remove_container
remove_container(container_id) ==
    /\ StIdle
    /\ stCalls' = stCalls + 1
    /\ Measured("remove_container", container_id, 0,
                [state_manager EXCEPT
                    !.container_states = MapRemove(@, container_id),
                    !.state_history = MapRemove(@, container_id),
                    !.state_cache = MapRemove(@, container_id),
                    !.subscribers = MapRemove(@, container_id)])
    /\ UNCHANGED notState

\* StateManager::rollback_to_version
rollback_to_version(container_id, version) ==
    /\ StIdle
    /\ stCalls' = stCalls + 1
    /\ IF container_id \notin DOMAIN state_manager.state_history
       THEN /\ stLast' = StCalled("rollback_to_version", container_id, version,
                                  FALSE, "Container not found")
            /\ UNCHANGED state_manager
       ELSE LET found == get_by_version(state_manager.state_history[container_id],
                                        version)
            IN  IF found = <<>>
                THEN /\ stLast' = StCalled("rollback_to_version", container_id,
                                           version, FALSE, "Version not found")
                     /\ UNCHANGED state_manager
                ELSE /\ state_manager' =
                            update_cache(
                                [state_manager EXCEPT
                                    !.container_states =
                                        MapInsert(@, container_id, found[1].state)],
                                container_id, found[1].state)
                     /\ stLast' = StCalled("rollback_to_version", container_id,
                                           version, TRUE, "")
    /\ UNCHANGED notState

\* StateManager::new
InitState ==
    /\ state_manager = [container_states |-> <<>>, state_history |-> <<>>,
                        state_cache |-> <<>>, subscribers |-> <<>>,
                        total_memory_usage |-> 0,
                        max_memory_usage |-> MaxMemoryMiB * MiB]
    /\ stCalls = 0
    /\ stLast = StCalled("new", "", 0, TRUE, "")

(***************************************************************************)
(* metrics.rs: TimeSeries and MetricsCollector.  Times are in ms, as       *)
(* performance.now() gives them; an f64 quotient is kept as the pair of    *)
(* its numerator and denominator.  The trends and recommendations of a     *)
(* report are left out: they are computed from the same data and feed      *)
(* nothing back.                                                           *)
(***************************************************************************)
MetricIds == {"m"}

ExecutionTimes == {500, 1500}

SampleValues == {1, 2}

SmallMaxSamples == {1, 2}

SmallRetentionHours == {1, 2}

LoweredThresholds == {400}

SeriesNames == {"execution_time", "memory_usage", "cpu_usage", "throughput", "error_rate"}

NoMetadata == [function |-> "", container |-> ""]

\* MetricSample::new(value) and with_metadata
MetricSample(value, time, metadata) ==
    [timestamp |-> time, value |-> value, metadata |-> metadata]

\* TimeSeries::new
TimeSeries(max_samples, retention_hours) ==
    [samples |-> <<>>, max_samples |-> max_samples,
     retention_duration |-> retention_hours * HourMillis]

\* while self.samples.len() > self.max_samples { self.samples.pop_front(); }
RECURSIVE pop_excess(_, _)
pop_excess(samples, max_samples) ==
    IF Len(samples) > max_samples THEN pop_excess(Tail(samples), max_samples)
    ELSE samples

\* mutant: samples past the retention window are looked for at the back
pop_old_back(samples, cutoff_time) ==
    IF samples # <<>> /\ samples[Len(samples)].timestamp < cutoff_time
    THEN SubSeq(samples, 1, Len(samples) - 1)
    ELSE samples

\* while let Some(front) = self.samples.front() { if front.timestamp <
\* cutoff_time { pop_front } else { break } }
RECURSIVE pop_old(_, _)
pop_old(samples, cutoff_time) ==
    IF samples # <<>> /\ Head(samples).timestamp < cutoff_time
    THEN pop_old(Tail(samples), cutoff_time)
    ELSE samples

\* TimeSeries::cleanup_old_samples
cleanup_old_samples(ts, time) ==
    [ts EXCEPT !.samples = pop_old(@, time - ts.retention_duration)]

\* TimeSeries::add_sample
add_sample(ts, sample, time) ==
    cleanup_old_samples(
        [ts EXCEPT !.samples = pop_excess(Append(@, sample), ts.max_samples)], time)

Ratio(num, den) == [num |-> num, den |-> den]

\* ratio > threshold, for a positive denominator
Above(ratio, threshold) == ratio.num > threshold * ratio.den

\* PerformanceMetrics::new
PerformanceMetrics ==
    [function_calls |-> 0, avg_execution_time |-> Ratio(0, 1),
     min_execution_time |-> F64Max, max_execution_time |-> 0,
     total_execution_time |-> 0, errors |-> 0, success_rate |-> Ratio(100, 1),
     memory_pressure |-> 0, cpu_utilization |-> 0]

\* PerformanceMetrics::record_execution
record_execution(metrics, execution_time, success) ==
    LET function_calls == metrics.function_calls + 1
        errors == IF success THEN metrics.errors ELSE metrics.errors + 1
        total  == metrics.total_execution_time + execution_time
        timed  ==
            IF success
            THEN [metrics EXCEPT
                     !.total_execution_time = total,
                     !.avg_execution_time = Ratio(total, function_calls),
                     !.min_execution_time =
                         IF execution_time < @ THEN execution_time ELSE @,
                     !.max_execution_time =
                         IF execution_time > @ THEN execution_time ELSE @]
            ELSE metrics
    IN  [timed EXCEPT !.function_calls = function_calls,
                      !.errors = errors,
                      !.success_rate =
                          Ratio((function_calls - errors) * 100, function_calls)]

\* MetricsCollector::default_thresholds
default_thresholds ==
    [execution_time |-> 1000, memory_pressure |-> 90, error_rate |-> 5,
     cpu_utilization |-> 80]

Alert(level, metric, value, threshold) ==
    [level |-> level, metric |-> metric, value |-> value, threshold |-> threshold]

\* MetricsCollector::generate_alerts: the alerts pushed to the report
generate_alerts(mc, metrics) ==
    LET error_rate == Ratio(100 * metrics.success_rate.den - metrics.success_rate.num,
                            metrics.success_rate.den)
    IN  (IF Above(metrics.avg_execution_time, mc.alert_thresholds.execution_time)
         THEN <<Alert("Warning", "execution_time", metrics.avg_execution_time,
                      mc.alert_thresholds.execution_time)>>
         ELSE <<>>)
        \o (IF metrics.memory_pressure > mc.alert_thresholds.memory_pressure
            THEN <<Alert("Critical", "memory_pressure",
                         Ratio(metrics.memory_pressure, 1),
                         mc.alert_thresholds.memory_pressure)>>
            ELSE <<>>)
        \o (IF Above(error_rate, mc.alert_thresholds.error_rate)
            THEN <<Alert("Warning", "error_rate", error_rate,
                         mc.alert_thresholds.error_rate)>>
            ELSE <<>>)

MetCalled(op, container_id, arg, ok, alerts) ==
    [op |-> op, id |-> container_id, arg |-> arg, ok |-> ok, alerts |-> alerts]

MetIdle == metCalls < MaxMetCalls

\* TimeSeries::new(max_samples, retention_hours)
new_series(max_samples, retention_hours) ==
    /\ MetIdle
    /\ metCalls' = metCalls + 1
    /\ series' = TimeSeries(max_samples, retention_hours)
    /\ seriesAdded' = <<>>
    /\ metLast' = MetCalled("new_series", "", max_samples, TRUE, <<>>)
    /\ UNCHANGED <<collector, perfNow>>
    /\ UNCHANGED notMet

\* series.add_sample(MetricSample::new(value))
series_add_sample(value) ==
    /\ MetIdle
    /\ metCalls' = metCalls + 1
    /\ series' = add_sample(series, MetricSample(value, perfNow, NoMetadata), perfNow)
    /\ seriesAdded' = Append(seriesAdded, MetricSample(value, perfNow, NoMetadata))
    /\ metLast' = MetCalled("add_sample", "", value, TRUE, <<>>)
    /\ UNCHANGED <<collector, perfNow>>
    /\ UNCHANGED notMet

\* MetricsCollector::register_container
register_container(container_id) ==
    /\ MetIdle
    /\ metCalls' = metCalls + 1
    /\ collector' =
           [collector EXCEPT
               !.container_metrics = MapInsert(@, container_id, PerformanceMetrics),
               !.time_series =
                   MapInsert(@, container_id,
                       [name \in SeriesNames |->
                           TimeSeries(SeriesMaxSamples, SeriesRetentionHours)])]
    /\ metLast' = MetCalled("register_container", container_id, 0, TRUE, <<>>)
    /\ UNCHANGED <<series, seriesAdded, perfNow>>
    /\ UNCHANGED notMet

\* MetricsCollector::record_function_call; the estimated cpu use is
\* min(execution_time / 1000 * 100, 100), exact for the times of the model
collector_record_function_call(container_id, function_name, execution_time) ==
    /\ MetIdle
    /\ metCalls' = metCalls + 1
    /\ metLast' = MetCalled("record_function_call", container_id, execution_time,
                            TRUE, <<>>)
    /\ IF ~collector.monitoring_enabled
       THEN UNCHANGED collector
       ELSE LET success == execution_time < collector.alert_thresholds.execution_time
                estimated_cpu == IF execution_time \div 10 < 100
                                 THEN execution_time \div 10 ELSE 100
                sample == MetricSample(execution_time, perfNow,
                              [function |-> function_name,
                               container |-> container_id])
            IN  collector' =
                    [collector EXCEPT
                        !.container_metrics =
                            IF container_id \in DOMAIN @
                            THEN [@ EXCEPT ![container_id] =
                                     [record_execution(@, execution_time, success)
                                         EXCEPT !.cpu_utilization = estimated_cpu]]
                            ELSE @,
                        !.global_metrics =
                            record_execution(@, execution_time, success),
                        !.time_series =
                            IF container_id \in DOMAIN @
                            THEN [@ EXCEPT ![container_id].execution_time =
                                     add_sample(@, sample, perfNow)]
                            ELSE @]
    /\ UNCHANGED <<series, seriesAdded, perfNow>>
    /\ UNCHANGED notMet

\* MetricsCollector::generate_performance_report: None for a container that
\* is not registered, else the report with its alerts
generate_performance_report(container_id) ==
    /\ MetIdle
    /\ metCalls' = metCalls + 1
    /\ metLast' =
           IF container_id \in DOMAIN collector.container_metrics
              /\ container_id \in DOMAIN collector.time_series
           THEN MetCalled("generate_performance_report", container_id, 0, TRUE,
                          generate_alerts(collector,
                              collector.container_metrics[container_id]))
           ELSE MetCalled("generate_performance_report", container_id, 0, FALSE,
                          <<>>)
    /\ UNCHANGED <<series, seriesAdded, collector, perfNow>>
    /\ UNCHANGED notMet

\* MetricsCollector::set_alert_threshold("execution_time", threshold)
set_alert_threshold(threshold) ==
    /\ MetIdle
    /\ metCalls' = metCalls + 1
    /\ collector' = [collector EXCEPT !.alert_thresholds.execution_time = threshold]
    /\ metLast' = MetCalled("set_alert_threshold", "", threshold, TRUE, <<>>)
    /\ UNCHANGED <<series, seriesAdded, perfNow>>
    /\ UNCHANGED notMet

\* MetricsCollector::enable_monitoring
enable_monitoring(enabled) ==
    /\ MetIdle
    /\ metCalls' = metCalls + 1
    /\ collector' = [collector EXCEPT !.monitoring_enabled = enabled]
    /\ metLast' = MetCalled("enable_monitoring", "", 0, enabled, <<>>)
    /\ UNCHANGED <<series, seriesAdded, perfNow>>
    /\ UNCHANGED notMet

\* time passes between two calls: performance.now() never goes back
MetTick ==
    /\ perfNow < MaxMetTicks * HourMillis
    /\ perfNow' = perfNow + HourMillis
    /\ UNCHANGED <<series, seriesAdded, collector, metCalls, metLast>>
    /\ UNCHANGED notMet

\* MetricsCollector::new, and a series as register_container makes them
InitMet ==
    /\ series = TimeSeries(SeriesMaxSamples, SeriesRetentionHours)
    /\ seriesAdded = <<>>
    /\ collector = [container_metrics |-> <<>>, time_series |-> <<>>,
                    global_metrics |-> PerformanceMetrics,
                    alert_thresholds |-> default_thresholds,
                    monitoring_enabled |-> TRUE]
    /\ perfNow = 0
    /\ metCalls = 0
    /\ metLast = MetCalled("new", "", 0, TRUE, <<>>)


(***************************************************************************)
(* runtime.rs: RuntimeEngine.  The registry holds the five runtimes that   *)
(* new() registers and nothing adds or removes one.  Memory sizes are in   *)
(* GiB and a score, an f64, is kept as the pair of its numerator and       *)
(* denominator.  The execution times of the statistics are left out: no    *)
(* score reads them.                                                       *)
(***************************************************************************)
RuntimeTypes == {"browser", "nodejs", "wasmtime", "wasmedge", "wasmer"}

\* RuntimeSpeed as evaluate_performance scores it
VeryFast == 5

Fast == 4

Medium == 3

\* get_performance_characteristics
PerformanceCharacteristics(startup, execution, memory, compilation) ==
    [startup_time |-> startup, execution_speed |-> execution,
     memory_efficiency |-> memory, compilation_speed |-> compilation]

\* OptimizationLevel as calculate_runtime_score scores it
MaxPerformance == 5

Aggressive == 4

Basic == 2

RuntimeCapabilities(features, performance, max_memory, optimization_level) ==
    [supported_features |-> features, performance |-> performance,
     max_memory |-> max_memory % U32GiB, optimization_level |-> optimization_level]

\* initialize_default_runtimes, initialize_wasmtime, initialize_wasmedge and
\* initialize_wasmer; max_memory is a u32 product of bytes
available_runtimes ==
    [runtime_type \in RuntimeTypes |->
        CASE runtime_type = "browser" ->
                 RuntimeCapabilities(
                     {"BasicWasm", "MemoryManagement", "WebAPI", "DOM", "WebGL",
                      "WebAssemblyStreaming", "SharedArrayBuffer"},
                     PerformanceCharacteristics(Fast, Medium, Medium, Fast), 2, Basic)
          [] runtime_type = "nodejs" ->
                 RuntimeCapabilities(
                     {"BasicWasm", "MemoryManagement", "FileSystem", "NetworkAccess",
                      "ProcessControl", "CryptoAPI"},
                     PerformanceCharacteristics(Medium, Fast, Medium, Fast), 8,
                     Aggressive)
          [] runtime_type = "wasmtime" ->
                 RuntimeCapabilities(
                     {"BasicWasm", "MemoryManagement", "WASI", "MultiValue",
                      "BulkMemory", "ReferenceTypes", "SIMD", "Threads"},
                     PerformanceCharacteristics(Medium, VeryFast, Fast, Medium), 16,
                     MaxPerformance)
          [] runtime_type = "wasmedge" ->
                 RuntimeCapabilities(
                     {"BasicWasm", "MemoryManagement", "WASI", "AIInference",
                      "ImageProcessing", "SocketAPI", "Threads"},
                     PerformanceCharacteristics(Fast, VeryFast, Fast, Fast), 32,
                     MaxPerformance)
          [] runtime_type = "wasmer" ->
                 RuntimeCapabilities(
                     {"BasicWasm", "MemoryManagement", "WASI", "CrossPlatform",
                      "MultipleEngines", "JITCompilation", "Threads"},
                     PerformanceCharacteristics(Medium, VeryFast, Fast, Medium), 16,
                     MaxPerformance)]

\* PerformanceWeights::default
DefaultWeights ==
    [startup_time |-> 1, execution_speed |-> 2, memory_efficiency |-> 1,
     compilation_speed |-> 1]

NoWeights ==
    [startup_time |-> 0, execution_speed |-> 0, memory_efficiency |-> 0,
     compilation_speed |-> 0]

RuntimeRequirements(features, memory, weights) ==
    [required_features |-> features, memory_requirement |-> memory,
     performance_weights |-> weights]

RequiredFeatures == {{}, {"DOM"}, {"WASI"}, {"WASI", "Threads"}, {"WASI", "DOM"}}

Requirements ==
    {RuntimeRequirements(f, m, w) :
        f \in RequiredFeatures, m \in {0, 1}, w \in {DefaultWeights, NoWeights}}

\* orders in which the HashMap of runtimes is iterated: the rotations of one
\* order.  The loop keeps the first runtime with the highest score, and each
\* runtime comes first in one rotation, so every outcome of the loop is there.
IterationOrders ==
    LET base == <<"browser", "nodejs", "wasmtime", "wasmedge", "wasmer">>
    IN  {[i \in 1..Len(base) |-> base[((i + k) % Len(base)) + 1]] : k \in 1..Len(base)}

RuntimeStats ==
    [execution_count |-> 0, success_count |-> 0, error_count |-> 0,
     selection_count |-> 0]

Added(a, b) == [num |-> a.num * b.den + b.num * a.den, den |-> a.den * b.den]

Greater(a, b) == a.num * b.den > b.num * a.den

\* RuntimeEngine::evaluate_performance
evaluate_performance(performance, requirements) ==
    LET weights == requirements.performance_weights
        total_score ==
            performance.startup_time * weights.startup_time
            + performance.execution_speed * weights.execution_speed
            + performance.memory_efficiency * weights.memory_efficiency
            + performance.compilation_speed * weights.compilation_speed
        weight_sum ==
            weights.startup_time + weights.execution_speed
            + weights.memory_efficiency + weights.compilation_speed
    IN  IF weight_sum > 0 THEN [num |-> total_score, den |-> weight_sum]
        ELSE [num |-> 3, den |-> 1]

\* mutant: the runtimes that lack a required feature are scored like the others
calculate_runtime_scoreOfAll(eng, runtime_type, capabilities, requirements) ==
    LET performance_score ==
            evaluate_performance(capabilities.performance, requirements)
    IN  Added([num |-> 40, den |-> 1],
              [num |-> 3 * performance_score.num,
               den |-> 10 * performance_score.den])

\* RuntimeEngine::calculate_runtime_score
calculate_runtime_score(eng, runtime_type, capabilities, requirements) ==
    IF ~(requirements.required_features \subseteq capabilities.supported_features)
    THEN [num |-> 0, den |-> 1]
    ELSE LET performance_score ==
                 evaluate_performance(capabilities.performance, requirements)
             memory ==
                 IF capabilities.max_memory >= requirements.memory_requirement
                 THEN [num |-> 15, den |-> 1]
                 ELSE [num |-> 15 * capabilities.max_memory,
                       den |-> requirements.memory_requirement]
             stats == eng.runtime_stats[runtime_type]
             reliability ==
                 IF stats.error_count > 0
                 THEN [num |-> 10 * (stats.execution_count + 1 - stats.error_count),
                       den |-> stats.execution_count + 1]
                 ELSE [num |-> 10, den |-> 1]
         IN  Added(Added(Added(Added([num |-> 40, den |-> 1],
                                     [num |-> 3 * performance_score.num,
                                      den |-> 10 * performance_score.den]),
                               memory),
                         reliability),
                   [num |-> capabilities.optimization_level, den |-> 1])

\* auto_select_runtime: the loop over the runtimes, in the order given
RECURSIVE best_of(_, _, _, _, _)
best_of(eng, requirements, order, best_runtime, best_score) ==
    IF order = <<>> THEN best_runtime
    ELSE LET score == calculate_runtime_score(eng, Head(order),
                          available_runtimes[Head(order)], requirements)
         IN  IF Greater(score, best_score)
             THEN best_of(eng, requirements, Tail(order), Head(order), score)
             ELSE best_of(eng, requirements, Tail(order), best_runtime, best_score)

RtCalled(op, arg, ret) == [op |-> op, arg |-> arg, ret |-> ret]

RtIdle == rtCalls < MaxRtCalls

\* RuntimeEngine::select_runtime; every RuntimeType is registered
select_runtime(runtime_type) ==
    /\ RtIdle
    /\ rtCalls' = rtCalls + 1
    /\ engine' = [engine EXCEPT !.current_runtime = runtime_type,
                                !.runtime_stats[runtime_type].selection_count = @ + 1]
    /\ rtLast' = RtCalled("select_runtime", runtime_type, "Ok")
    /\ UNCHANGED notRt

\* RuntimeEngine::auto_select_runtime
auto_select_runtime(requirements, order) ==
    /\ RtIdle
    /\ rtCalls' = rtCalls + 1
    /\ IF ~engine.auto_selection_enabled
       THEN /\ rtLast' = RtCalled("auto_select_runtime", requirements,
                                  engine.current_runtime)
            /\ UNCHANGED engine
       ELSE LET best_runtime == best_of(engine, requirements, order,
                                        engine.fallback_runtime, [num |-> 0, den |-> 1])
            IN  /\ engine' = [engine EXCEPT !.current_runtime = best_runtime]
                /\ rtLast' = RtCalled("auto_select_runtime", requirements,
                                      best_runtime)
    /\ UNCHANGED notRt

\* RuntimeEngine::record_execution
runtime_record_execution(runtime_type, success) ==
    /\ RtIdle
    /\ rtCalls' = rtCalls + 1
    /\ engine' = [engine EXCEPT
                     !.runtime_stats[runtime_type] =
                         [@ EXCEPT !.execution_count = @ + 1,
                                   !.success_count = IF success THEN @ + 1 ELSE @,
                                   !.error_count = IF success THEN @ ELSE @ + 1]]
    /\ rtLast' = RtCalled("record_execution", runtime_type, success)
    /\ UNCHANGED notRt

\* RuntimeEngine::enable_auto_selection
enable_auto_selection(enabled) ==
    /\ RtIdle
    /\ rtCalls' = rtCalls + 1
    /\ engine' = [engine EXCEPT !.auto_selection_enabled = enabled]
    /\ rtLast' = RtCalled("enable_auto_selection", enabled, "")
    /\ UNCHANGED notRt

\* RuntimeEngine::set_fallback_runtime
set_fallback_runtime(runtime_type) ==
    /\ RtIdle
    /\ rtCalls' = rtCalls + 1
    /\ engine' = [engine EXCEPT !.fallback_runtime = runtime_type]
    /\ rtLast' = RtCalled("set_fallback_runtime", runtime_type, "")
    /\ UNCHANGED notRt

\* RuntimeEngine::new
InitRt ==
    /\ engine = [current_runtime |-> "browser",
                 runtime_stats |-> [runtime_type \in RuntimeTypes |-> RuntimeStats],
                 auto_selection_enabled |-> TRUE,
                 fallback_runtime |-> "browser"]
    /\ rtCalls = 0
    /\ rtLast = RtCalled("new", "", "")

(***************************************************************************)
(* container.rs: one WasmContainer, created without a wasm_url, so with    *)
(* the mock module.  stop is an async fn without an await: it runs to its  *)
(* end in one step, and its passage through Stopping is seen by no one.    *)
(***************************************************************************)
MockFunctions == {"increment", "decrement", "reset", "get_state"}

CalledFunctions == {"increment", "reset", "get_state", "missing"}

CtCalled(op, arg, ok, err) == [op |-> op, arg |-> arg, ok |-> ok, err |-> err]

CtIdle == ctCalls < MaxCtCalls

\* the mock functions of create_mock_instance: the count they leave in _state
mock_count(function_name, count) ==
    CASE function_name = "increment" -> count + 1
      [] function_name = "decrement" -> count - 1
      [] function_name = "reset" -> 0
      [] OTHER -> count

\* WasmContainer::call_function
call_function(function_name) ==
    /\ CtIdle
    /\ ctCalls' = ctCalls + 1
    /\ IF container.status # "Running"
       THEN /\ container' = [container EXCEPT !.last_accessed = ctCalls']
            /\ ctLast' = CtCalled("call_function", function_name, FALSE,
                                  "Container is not running")
            /\ UNCHANGED jsState
       ELSE IF function_name \in container.function_cache
       THEN /\ jsState' = mock_count(function_name, jsState)
            /\ container' =
                   [container EXCEPT
                       !.last_accessed = ctCalls',
                       !.count = IF function_name = "get_state" THEN @
                                 ELSE mock_count(function_name, jsState)]
            /\ ctLast' = CtCalled("call_function", function_name, TRUE, "")
       ELSE /\ container' = [container EXCEPT !.last_accessed = ctCalls']
            /\ ctLast' = CtCalled("call_function", function_name, FALSE,
                                  "Function not found")
            /\ UNCHANGED jsState
    /\ UNCHANGED notCt

\* WasmContainer::stop
stop ==
    /\ CtIdle
    /\ ctCalls' = ctCalls + 1
    /\ container' = [container EXCEPT !.status = "Stopped",
                                      !.wasm_instance = FALSE,
                                      !.function_cache = {},
                                      !.memory_usage = 0]
    /\ ctLast' = CtCalled("stop", "", TRUE, "")
    /\ UNCHANGED jsState
    /\ UNCHANGED notCt

\* mutant: a container that is not running is put back to Running
resumedUnlessRunning(status) ==
    IF status # "Running" THEN [ok |-> TRUE, status |-> "Running"]
    ELSE [ok |-> FALSE, status |-> status]

\* resume: the result and the status it leaves
resumed(status) ==
    IF status = "Paused" THEN [ok |-> TRUE, status |-> "Running"]
    ELSE [ok |-> FALSE, status |-> status]

\* WasmContainer::pause
pause ==
    /\ CtIdle
    /\ ctCalls' = ctCalls + 1
    /\ IF container.status = "Running"
       THEN /\ container' = [container EXCEPT !.status = "Paused"]
            /\ ctLast' = CtCalled("pause", "", TRUE, "")
       ELSE /\ ctLast' = CtCalled("pause", "", FALSE, "Container is not running")
            /\ UNCHANGED container
    /\ UNCHANGED jsState
    /\ UNCHANGED notCt

\* WasmContainer::resume
resume ==
    /\ CtIdle
    /\ ctCalls' = ctCalls + 1
    /\ container' = [container EXCEPT !.status = resumed(@).status]
    /\ ctLast' = CtCalled("resume", "", resumed(container.status).ok,
                          IF resumed(container.status).ok THEN ""
                          ELSE "Container is not paused")
    /\ UNCHANGED jsState
    /\ UNCHANGED notCt

\* WasmContainer::reset_state; the initial state of the config has count 0
reset_state ==
    /\ CtIdle
    /\ ctCalls' = ctCalls + 1
    /\ container' = [container EXCEPT !.count = 0]
    /\ ctLast' = CtCalled("reset_state", "", TRUE, "")
    /\ UNCHANGED jsState
    /\ UNCHANGED notCt

\* WasmContainer::new(config) with config.wasm_url = None, when it succeeds
InitCt ==
    /\ container = [status |-> "Running", wasm_instance |-> FALSE,
                    function_cache |-> MockFunctions, memory_usage |-> MockMemory,
                    count |-> 0, last_accessed |-> 0]
    /\ jsState = 0
    /\ ctCalls = 0
    /\ ctLast = CtCalled("new", "", TRUE, "")

(***************************************************************************)
(* lib.rs: document values.                                                *)
(*                                                                         *)
(* A string is a sequence of characters, so that splitting a path on '.'   *)
(* is computed.  A Value is a number or an object (a map from keys to      *)
(* Values); [t |-> "num", n |-> 1] and [t |-> "obj", m |-> map].           *)
(***************************************************************************)
Num(n) == [t |-> "num", n |-> n]

Obj(map) == [t |-> "obj", m |-> map]

EmptyMap == [k \in {} |-> Num(0)]

IsObject(value) == value.t = "obj"

\* serde_json::Map::insert
Insert(map, key, value) ==
    [k \in (DOMAIN map) \cup {key} |-> IF k = key THEN value ELSE map[k]]

\* path.split('.'): the parts between the dots (one empty part for "")
RECURSIVE Split(_)
Split(path) ==
    IF \A i \in 1..Len(path) : path[i] # "."
    THEN <<path>>
    ELSE LET dot == Min({i \in 1..Len(path) : path[i] = "."})
         IN  <<SubSeq(path, 1, dot - 1)>>
                 \o Split(SubSeq(path, dot + 1, Len(path)))

\* the cache only memoises Split
parse_path_optimized(path) == Split(path)

Ok(node) == [panic |-> FALSE, root |-> node]

Panicked(node) == [panic |-> TRUE, root |-> node]

\* The outcome of set_nested_value_fast on a copy of the root: the new root,
\* or a panic (unreachable!()) when a segment before the last one has to be
\* looked up in a value that is not an object.
RECURSIVE set_nested_value_fast(_, _, _)
set_nested_value_fast(node, path, value) ==
    IF path = <<>> THEN Ok(value)
    ELSE IF Len(path) = 1
    THEN IF IsObject(node)
         THEN Ok(Obj(Insert(node.m, path[1], value)))
         ELSE Ok(node)
    ELSE IF ~IsObject(node) THEN Panicked(node)
    ELSE LET key   == path[1]
             child == IF key \in DOMAIN node.m THEN node.m[key] ELSE Obj(EmptyMap)
             below == set_nested_value_fast(child, Tail(path), value)
         IN  IF below.panic THEN Panicked(node)
             ELSE Ok(Obj(Insert(node.m, key, below.root)))

Undefined == [t |-> "undefined"]

RECURSIVE get_nested_value_fast(_, _)
get_nested_value_fast(node, path) ==
    IF path = <<>> THEN node
    ELSE IF IsObject(node) /\ path[1] \in DOMAIN node.m
    THEN get_nested_value_fast(node.m[path[1]], Tail(path))
    ELSE Undefined

\* mutant: a mapping under a key both sides have is merged, not replaced
MergedDeep(state, merge_data) ==
    IF IsObject(state) /\ IsObject(merge_data)
    THEN Obj([k \in (DOMAIN state.m) \cup (DOMAIN merge_data.m) |->
                 IF k \notin DOMAIN merge_data.m THEN state.m[k]
                 ELSE IF /\ k \in DOMAIN state.m
                         /\ IsObject(state.m[k])
                         /\ IsObject(merge_data.m[k])
                 THEN Obj([j \in (DOMAIN state.m[k].m)
                                    \cup (DOMAIN merge_data.m[k].m) |->
                              IF j \in DOMAIN merge_data.m[k].m
                              THEN merge_data.m[k].m[j]
                              ELSE state.m[k].m[j]])
                 ELSE merge_data.m[k]])
    ELSE state

\* state_obj.extend(merge_obj.clone()), when both are objects
Merged(state, merge_data) ==
    IF IsObject(state) /\ IsObject(merge_data)
    THEN Obj([k \in (DOMAIN state.m) \cup (DOMAIN merge_data.m) |->
                 IF k \in DOMAIN merge_data.m THEN merge_data.m[k] ELSE state.m[k]])
    ELSE state

(***************************************************************************)
(* serde_json::to_vec and from_slice, over tokens instead of bytes.        *)
(***************************************************************************)
Tok(kind, arg) == [k |-> kind, a |-> arg]

\* the keys of the model in the order a serde_json map iterates over them
KeyOrder == << <<>>, <<"a">>, <<"a", ".", "b">>, <<"b">> >>

RECURSIVE to_vec(_)
to_vec(value) ==
    IF ~IsObject(value) THEN <<Tok("num", value.n)>>
    ELSE LET Members[i \in 0..Len(KeyOrder)] ==
                 IF i = 0 THEN <<>>
                 ELSE IF KeyOrder[i] \in DOMAIN value.m
                      THEN Members[i - 1]
                           \o (IF Members[i - 1] = <<>> THEN <<>> ELSE <<Tok("comma", 0)>>)
                           \o <<Tok("str", KeyOrder[i]), Tok("colon", 0)>>
                           \o to_vec(value.m[KeyOrder[i]])
                      ELSE Members[i - 1]
         IN  <<Tok("lbrace", 0)>> \o Members[Len(KeyOrder)] \o <<Tok("rbrace", 0)>>

Parsed(value, next) == [ok |-> TRUE, value |-> value, next |-> next]

ParseError == [ok |-> FALSE, value |-> Undefined, next |-> 0]

Kind(bytes, i) == IF i <= Len(bytes) THEN bytes[i].k ELSE "eof"

\* the value that starts at position i, and the position behind it
RECURSIVE ParseValue(_, _)
RECURSIVE ParseMembers(_, _, _)
ParseValue(bytes, i) ==
    IF Kind(bytes, i) = "num" THEN Parsed(Num(bytes[i].a), i + 1)
    ELSE IF Kind(bytes, i) = "lbrace"
    THEN IF Kind(bytes, i + 1) = "rbrace" THEN Parsed(Obj(EmptyMap), i + 2)
         ELSE ParseMembers(bytes, i + 1, EmptyMap)
    ELSE ParseError

\* the members from position i on, added to map, up to the closing brace
ParseMembers(bytes, i, map) ==
    IF Kind(bytes, i) # "str" \/ Kind(bytes, i + 1) # "colon" THEN ParseError
    ELSE LET member == ParseValue(bytes, i + 2)
         IN  IF ~member.ok THEN ParseError
             ELSE LET more == Insert(map, bytes[i].a, member.value)
                  IN  IF Kind(bytes, member.next) = "comma"
                      THEN ParseMembers(bytes, member.next + 1, more)
                      ELSE IF Kind(bytes, member.next) = "rbrace"
                      THEN Parsed(Obj(more), member.next + 1)
                      ELSE ParseError

\* mutant: the end of the input is looked for one byte early
from_sliceShort(bytes) ==
    LET parsed == ParseValue(bytes, 1)
    IN  IF parsed.ok /\ parsed.next = Len(bytes) THEN parsed ELSE ParseError

\* serde_json::from_slice: one value and nothing behind it
from_slice(bytes) ==
    LET parsed == ParseValue(bytes, 1)
    IN  IF parsed.ok /\ parsed.next = Len(bytes) + 1 THEN parsed ELSE ParseError


(***************************************************************************)
(* lib.rs: the store.  What the host passes in.                            *)
(***************************************************************************)
KeyA == <<"a">>

KeyB == <<"b">>

Callbacks == {"cb1", "cb2"}

SetPayloads == {Obj(Insert(EmptyMap, KeyA, Num(1))), Num(1)}

MergePayloads == {Obj(Insert(EmptyMap, KeyB, Num(2)))}

Update(path, value) == [path |-> path, value |-> value]

UpdatePayloads == {Update(<<"a">>, Num(2)), Update(<<"a", ".", "b">>, Num(1))}

BatchPayloads == {<<Update(<<"a">>, Num(2)), Update(<<"b">>, Num(1))>>}

SelectPaths == {<<>>, <<"a">>}

NoOp == [op |-> "none", arg |-> 0, cur |-> 0, ret |-> 0, before |-> 0]

NoEvent == [kind |-> "none"]

NoFanout == [by |-> "none", callbacks |-> {}, owed |-> {}, eligible |-> {}]

Range(seq) == {seq[i] : i \in 1..Len(seq)}

RegisteredCallbacks == {r.cb : r \in registered}

NoApplied == [cmd |-> <<>>, index |-> 0, pre |-> Obj(EmptyMap),
              cur |-> Obj(EmptyMap), panic |-> FALSE, alone |-> FALSE,
              stored |-> Obj(EmptyMap)]

\* the ids of the snapshots already stored, and the ids Uuid::new_v4() can
\* yield next: below and above the stored ones in the order of keys.sort()
StoredUuids == 101..149

Uuids == {1, 2, 150, 151}

KeyAB == <<"a", ".", "b">>

InitPayloads == SetPayloads \cup {Obj(Insert(EmptyMap, KeyAB, Num(1)))}

AddPayloads == UpdatePayloads \cup {Update(<<"a">>, Num(1))}

BatchSelectPaths == SelectPaths \cup {KeyAB}

\* {"a": {"b": 1}, "b": 1}
NestedRoot ==
    Obj(Insert(Insert(EmptyMap, KeyA, Obj(Insert(EmptyMap, KeyB, Num(1)))),
               KeyB, Num(1)))

DocInitPayloads == {NestedRoot, Num(1)}

DocMergePayloads ==
    MergePayloads \cup {Obj(Insert(EmptyMap, KeyA, Obj(Insert(EmptyMap, KeyA, Num(2)))))}

DocUpdatePayloads == {Update(<<>>, Num(2)), Update(<<"a">>, Num(2))}

(***************************************************************************)
(* The caller's thread.  A call starts when the thread is idle and runs to *)
(* its end before the next call or the next notification task starts.      *)
(***************************************************************************)
Idle == mpc = "idle" /\ calls < MaxCalls

\* init_store(initial_state): GLOBAL_STATE.store, no notification
init_store(initial_state) ==
    /\ Idle
    /\ calls' = calls + 1
    /\ root' = initial_state
    /\ ideal' = initial_state
    /\ partial' = FALSE
    /\ writer' = [by |-> "init_store", v |-> initial_state]
    /\ event' = [kind |-> "return", op |-> "init_store", arg |-> initial_state,
                 result |-> 0]
    /\ UNCHANGED <<subVars, snapVars, workerVars, chan, tasks, mpc, mop, fanout>>
    /\ UNCHANGED notStore

\* dispatch("SET", payload): GLOBAL_STATE.store, then notify_subscribers_async
dispatch_SET(payload) ==
    /\ Idle
    /\ calls' = calls + 1
    /\ root' = payload
    /\ ideal' = payload
    /\ partial' = FALSE
    /\ writer' = [by |-> "SET", v |-> payload]
    /\ mop' = [op |-> "SET", arg |-> payload, cur |-> root, ret |-> payload,
               before |-> root]
    /\ mpc' = "notify"
    /\ UNCHANGED <<subVars, snapVars, workerVars, chan, tasks, event, fanout>>
    /\ UNCHANGED notStore

\* dispatch("MERGE", payload), first part: let current = GLOBAL_STATE.load()
dispatch_MERGE(payload) ==
    /\ Idle
    /\ calls' = calls + 1
    /\ mop' = [op |-> "MERGE", arg |-> payload, cur |-> root, ret |-> 0,
               before |-> root]
    /\ mpc' = "merge_store"
    /\ UNCHANGED <<rootVars, subVars, snapVars, workerVars, chan, tasks, event,
                   fanout>>
    /\ UNCHANGED notStore

\* dispatch("MERGE", payload), second part: the merge into the copy and
\* GLOBAL_STATE.store(new_state)
merge_store ==
    /\ mpc = "merge_store"
    /\ root' = Merged(mop.cur, mop.arg)
    /\ ideal' = Merged(ideal, mop.arg)
    /\ partial' = FALSE
    /\ writer' = [by |-> "MERGE", v |-> Merged(mop.cur, mop.arg)]
    /\ mop' = [mop EXCEPT !.ret = Merged(mop.cur, mop.arg), !.before = root]
    /\ mpc' = "notify"
    /\ UNCHANGED <<subVars, snapVars, workerVars, chan, tasks, calls, event,
                   fanout>>
    /\ UNCHANGED notStore

\* BATCH_SENDER.send(cmd): queued while the worker's receiver exists
Sent(cmd) == IF wpc = "dead" THEN chan ELSE Append(chan, cmd)

\* dispatch("UPDATE", {path, value}), first part: the send
dispatch_UPDATE(update) ==
    /\ Idle
    /\ calls' = calls + 1
    /\ chan' = Sent(<<update>>)
    /\ mop' = [op |-> "UPDATE", arg |-> <<update>>, cur |-> 0, ret |-> 0,
               before |-> root]
    /\ mpc' = "return_current"
    /\ UNCHANGED <<rootVars, subVars, snapVars, workerVars, tasks, event, fanout>>
    /\ UNCHANGED notStore

\* dispatch("BATCH", [{path, value}, ...]), first part: the send
dispatch_BATCH(batch_updates) ==
    /\ Idle
    /\ calls' = calls + 1
    /\ chan' = Sent(batch_updates)
    /\ mop' = [op |-> "BATCH", arg |-> batch_updates, cur |-> 0, ret |-> 0,
               before |-> root]
    /\ mpc' = "return_current"
    /\ UNCHANGED <<rootVars, subVars, snapVars, workerVars, tasks, event, fanout>>
    /\ UNCHANGED notStore

\* mutant: the new update is put in front of the queued ones
PushedFront(vec, update) == <<update>> \o vec

\* self.updates.push((path, val))
Pushed(vec, update) == Append(vec, update)

\* BatchUpdate::add(path, value)
add(update) ==
    /\ Idle
    /\ calls' = calls + 1
    /\ updates' = Pushed(updates, update)
    /\ added' = Append(added, update)
    /\ event' = [kind |-> "return", op |-> "add", arg |-> update, result |-> 0]
    /\ UNCHANGED <<rootVars, subVars, snapVars, workerVars, chan, tasks, mpc, mop,
                   fanout>>
    /\ UNCHANGED notBatch

\* BatchUpdate::execute(), first part: the send of all the updates
execute ==
    /\ Idle
    /\ calls' = calls + 1
    /\ chan' = Sent(updates)
    /\ mop' = [op |-> "execute", arg |-> updates, cur |-> 0, ret |-> 0,
               before |-> root]
    /\ mpc' = "return_current"
    /\ UNCHANGED <<rootVars, subVars, snapVars, workerVars, tasks, event, fanout>>
    /\ UNCHANGED <<batchVars, notBatch>>

\* dispatch UPDATE and BATCH and execute, second part: GLOBAL_STATE.load() is
\* returned
return_current ==
    /\ mpc = "return_current"
    /\ event' = [kind |-> "return", op |-> mop.op, arg |-> mop.arg, result |-> root]
    /\ mpc' = "idle"
    /\ mop' = NoOp
    /\ UNCHANGED <<rootVars, subVars, snapVars, workerVars, chan, tasks, calls,
                   fanout>>
    /\ UNCHANGED notStore

\* mutant: the empty path is parsed and looked up like any other
SelectedParsed(state, path) ==
    get_nested_value_fast(state, parse_path_optimized(path))

\* what select returns for path when the root is state
Selected(state, path) ==
    IF path = <<>> THEN state
    ELSE get_nested_value_fast(state, parse_path_optimized(path))

\* select(path)
select(path) ==
    /\ Idle
    /\ calls' = calls + 1
    /\ event' = [kind |-> "select", path |-> path, partial |-> partial,
                 writer |-> writer,
                 result |-> Selected(root, path)]
    /\ UNCHANGED <<rootVars, subVars, snapVars, workerVars, chan, tasks, mpc, mop,
                   fanout>>
    /\ UNCHANGED notStore

\* subscribe(callback)
subscribe(callback) ==
    /\ Idle
    /\ nextSub <= MaxSubs
    /\ calls' = calls + 1
    /\ subs' = Append(subs, callback)
    /\ registered' = registered \cup {[id |-> nextSub, cb |-> callback]}
    /\ nextSub' = nextSub + 1
    /\ event' = [kind |-> "return", op |-> "subscribe", arg |-> callback,
                 result |-> nextSub]
    /\ UNCHANGED <<rootVars, snapVars, workerVars, chan, tasks, mpc, mop, fanout>>
    /\ UNCHANGED notStore

\* unsubscribe(subscription_id): SUBSCRIPTIONS.clear()
unsubscribe(subscription_id) ==
    /\ Idle
    /\ calls' = calls + 1
    /\ subs' = <<>>
    /\ registered' = {r \in registered : r.id # subscription_id}
    /\ event' = [kind |-> "return", op |-> "unsubscribe", arg |-> subscription_id,
                 result |-> 0]
    /\ UNCHANGED <<nextSub, rootVars, snapVars, workerVars, chan, tasks, mpc, mop,
                   fanout>>
    /\ UNCHANGED notStore

\* create_snapshot() when Uuid::new_v4() yields snapshot_id, a fresh id
create_snapshot_as(snapshot_id) ==
    /\ Idle
    /\ snapshot_id \notin DOMAIN snapshots
    /\ calls' = calls + 1
    /\ snapshots' = Insert(snapshots, snapshot_id, to_vec(root))
    /\ snapRoot' = Insert(snapRoot, snapshot_id, root)
    /\ snapOrder' = Append(snapOrder, snapshot_id)
    /\ nextSnap' = nextSnap + 1
    /\ event' = [kind |-> "return", op |-> "create_snapshot", arg |-> 0,
                 result |-> snapshot_id]
    /\ UNCHANGED <<rootVars, subVars, workerVars, chan, tasks, mpc, mop, fanout>>
    /\ UNCHANGED notStore

\* create_snapshot(), the fresh id being named by its rank of creation
create_snapshot == nextSnap <= MaxSnaps /\ create_snapshot_as(nextSnap)

\* the keys cleanup removes: keys.sort(), then all but the last
\* SnapshotsKept of them, when there are more than SnapshotCeiling
Swept(keys) ==
    IF Cardinality(keys) > SnapshotCeiling
    THEN {key \in keys :
             Cardinality({other \in keys : other > key}) >= SnapshotsKept}
    ELSE {}

\* cleanup(): the snapshot part (the pool reset and the path cache trim
\* touch nothing that is kept here)
cleanup ==
    /\ Idle
    /\ calls' = calls + 1
    /\ snapshots' = [key \in DOMAIN snapshots \ Swept(DOMAIN snapshots) |->
                        snapshots[key]]
    /\ event' = [kind |-> "return", op |-> "cleanup", arg |-> 0,
                 result |-> Swept(DOMAIN snapshots)]
    /\ UNCHANGED <<nextSnap, snapRoot, snapOrder>>
    /\ UNCHANGED <<rootVars, subVars, workerVars, chan, tasks, mpc, mop, fanout>>
    /\ UNCHANGED notStore

\* mutant: a missing id is served with the snapshot of the least id
FoundOrLeast(snapshot_id) ==
    IF snapshot_id \in DOMAIN snapshots THEN <<snapshots[snapshot_id]>>
    ELSE IF DOMAIN snapshots # {} THEN <<snapshots[Min(DOMAIN snapshots)]>>
    ELSE <<>>

\* SNAPSHOTS.get(snapshot_id): the bytes, or nothing
Found(snapshot_id) ==
    IF snapshot_id \in DOMAIN snapshots THEN <<snapshots[snapshot_id]>> ELSE <<>>

\* restore_snapshot(snapshot_id), up to GLOBAL_STATE.store
restore_snapshot(snapshot_id) ==
    /\ Idle
    /\ calls' = calls + 1
    /\ IF Found(snapshot_id) = <<>>
       THEN /\ event' = [kind |-> "error", op |-> "RESTORE", arg |-> snapshot_id,
                         result |-> "Snapshot not found"]
            /\ UNCHANGED <<rootVars, mpc, mop>>
       ELSE IF ~from_slice(Found(snapshot_id)[1]).ok
       THEN /\ event' = [kind |-> "error", op |-> "RESTORE", arg |-> snapshot_id,
                         result |-> "Failed to deserialize snapshot"]
            /\ UNCHANGED <<rootVars, mpc, mop>>
       ELSE LET state == from_slice(Found(snapshot_id)[1]).value
            IN  /\ root' = state
                /\ ideal' = state
                /\ partial' = FALSE
                /\ writer' = [by |-> "RESTORE", v |-> state]
                /\ mop' = [op |-> "RESTORE", arg |-> snapshot_id, cur |-> 0,
                           ret |-> state, before |-> root]
                /\ mpc' = "notify"
                /\ UNCHANGED event
    /\ UNCHANGED <<subVars, snapVars, workerVars, chan, tasks, fanout>>
    /\ UNCHANGED notStore

\* the task notify_subscribers_async hands to spawn_local: the callbacks of
\* the "global" entry and GLOBAL_STATE.load() at this moment
Scheduled == IF subs = <<>> THEN tasks
             ELSE Append(tasks, [callbacks |-> subs, state |-> root,
                                 partial |-> partial])

\* notify_subscribers_async at the end of SET, MERGE and restore_snapshot,
\* and the return of the call
notify ==
    /\ mpc = "notify"
    /\ tasks' = Scheduled
    /\ fanout' = [by |-> mop.op, callbacks |-> Range(subs),
                  owed |-> RegisteredCallbacks,
                  eligible |-> RegisteredCallbacks]
    /\ event' = [kind |-> "return", op |-> mop.op, arg |-> mop.arg,
                 result |-> mop.ret]
    /\ mpc' = "idle"
    /\ mop' = NoOp
    /\ UNCHANGED <<rootVars, subVars, snapVars, workerVars, chan, calls>>
    /\ UNCHANGED notStore

\* a notification task runs: every callback is called with the captured root
run_task ==
    /\ mpc = "idle"
    /\ tasks # <<>>
    /\ tasks' = Tail(tasks)
    /\ event' = [kind |-> "callback", callbacks |-> Head(tasks).callbacks,
                 result |-> Head(tasks).state, partial |-> Head(tasks).partial]
    /\ UNCHANGED <<rootVars, subVars, snapVars, workerVars, chan, mpc, mop, calls,
                   fanout>>
    /\ UNCHANGED notStore

(***************************************************************************)
(* The batch worker: while let Ok(cmd) = rx.recv() { apply_update ... }    *)
(***************************************************************************)
\* the root with every update of cmd applied in order; pre itself when one
\* of them cannot be applied
RECURSIVE AllApplied(_, _, _)
AllApplied(cmd, state, pre) ==
    IF cmd = <<>> THEN state
    ELSE LET r == set_nested_value_fast(state,
                      parse_path_optimized(Head(cmd).path), Head(cmd).value)
         IN  IF r.panic THEN pre ELSE AllApplied(Tail(cmd), r.root, pre)

worker_recv ==
    /\ wpc = "recv"
    /\ chan # <<>>
    /\ chan' = Tail(chan)
    /\ wcmd' = Head(chan)
    /\ wi' = 1
    /\ wpc' = IF Head(chan) = <<>> THEN "recv" ELSE "load"
    /\ UNCHANGED <<wcur, wpre, wowed, applied, rootVars, subVars, snapVars, tasks,
                   mpc, mop, calls, event, fanout>>
    /\ UNCHANGED notStore

\* apply_update: let current_state = GLOBAL_STATE.load()
worker_load ==
    /\ wpc = "load"
    /\ wcur' = root
    /\ wpre' = IF wi = 1 THEN root ELSE wpre
    /\ wpc' = "store"
    /\ UNCHANGED <<wcmd, wi, wowed, applied, rootVars, subVars, snapVars, chan,
                   tasks, mpc, mop, calls, event, fanout>>
    /\ UNCHANGED notStore

\* apply_update: the edit of the copy and GLOBAL_STATE.store; a panic of
\* set_nested_value_fast ends the thread and drops the receiver
worker_store ==
    /\ wpc = "store"
    /\ LET parts == parse_path_optimized(wcmd[wi].path)
           r     == set_nested_value_fast(wcur, parts, wcmd[wi].value)
           ri    == set_nested_value_fast(ideal, parts, wcmd[wi].value)
           alone == /\ (wi = 1 \/ (applied.alone /\ wcur = applied.stored))
                    /\ root = wcur
           done  == [cmd |-> wcmd, index |-> wi, pre |-> wpre, cur |-> wcur,
                     panic |-> r.panic, alone |-> alone,
                     stored |-> IF r.panic THEN root ELSE r.root]
       IN  IF r.panic
           THEN /\ wpc' = "dead"
                /\ chan' = <<>>
                /\ applied' = done
                /\ UNCHANGED <<rootVars, wowed>>
           ELSE /\ root' = r.root
                /\ applied' = done
                /\ writer' = [by |-> "worker", v |-> r.root]
                /\ ideal' = IF ri.panic THEN ideal ELSE ri.root
                /\ partial' = /\ wi < Len(wcmd)
                              /\ r.root # wpre
                              /\ r.root # AllApplied(wcmd, wpre, wpre)
                /\ wowed' = RegisteredCallbacks
                /\ wpc' = "notify"
                /\ UNCHANGED chan
    /\ UNCHANGED <<wcmd, wi, wcur, wpre, subVars, snapVars, tasks, mpc, mop, calls,
                   event, fanout>>
    /\ UNCHANGED notStore

\* apply_update: notify_subscribers_async, then the next update or command
worker_notify ==
    /\ wpc = "notify"
    /\ tasks' = Scheduled
    /\ fanout' = [by |-> "worker", callbacks |-> Range(subs),
                  owed |-> wowed \cap RegisteredCallbacks,
                  eligible |-> wowed]
    /\ wi' = wi + 1
    /\ wpc' = IF wi < Len(wcmd) THEN "load" ELSE "recv"
    /\ UNCHANGED <<wcmd, wcur, wpre, wowed, applied, rootVars, subVars, snapVars,
                   chan, mpc, mop, calls, event>>
    /\ UNCHANGED notStore

(***************************************************************************)
(* security.rs: SecurityManager.  Memory sizes are in units of 16 MiB and  *)
(* times in units of 8 ms, so that the policies' limits and the points     *)
(* where the u32 values wrap are whole numbers.                            *)
(***************************************************************************)
SecurityPolicy(allowed, blocked, memory, time, signature, level) ==
    [allowed_functions |-> allowed,
     blocked_functions |-> blocked,
     max_memory |-> memory,
     max_execution_time |-> time,
     require_signature |-> signature,
     isolation_level |-> level]

\* SecurityPolicy::default(): 64 MiB, 5000 ms
default ==
    SecurityPolicy({"increment", "decrement", "reset", "get_state"}, {},
                   4, 625, FALSE, "Medium")

\* SecurityPolicy::strict(): 16 MiB, 1000 ms
strict == SecurityPolicy({}, {}, 1, 125, TRUE, "High")

\* SecurityPolicy::permissive(): 256 MiB, 30000 ms
permissive == SecurityPolicy({}, {}, 16, 3750, FALSE, "Low")

\* policies a host builds: the default one with a function blocked, and the
\* default one with the signature required
Policies ==
    {default, strict, permissive,
     [default EXCEPT !.blocked_functions = {"increment"}],
     [default EXCEPT !.require_signature = TRUE]}

ContainerIds == {"k"}

FunctionNames == {"increment", "eval"}

Sizes == {1, 4, 255}

Durations == {126, U32Millis}

\* hex of the SHA-256 of data: some string that depends on data only
Sha256Hex(data) == <<"sha256", data>>

Datas == {"wasm"}

Signatures == {Sha256Hex("wasm"), <<"forged">>}

\* mutant: the whitelist is consulted before the blocked set
is_function_allowedAllowFirst(policy, function_name) ==
    IF function_name \in policy.allowed_functions THEN TRUE
    ELSE IF function_name \in policy.blocked_functions THEN FALSE
    ELSE policy.allowed_functions = {}

\* SecurityPolicy::is_function_allowed
is_function_allowed(policy, function_name) ==
    IF function_name \in policy.blocked_functions THEN FALSE
    ELSE IF policy.allowed_functions = {} THEN TRUE
    ELSE function_name \in policy.allowed_functions

\* SecurityContext::new
SecurityContext(policy) ==
    [policy |-> policy,
     execution_start |-> [some |-> FALSE, at |-> 0],
     memory_allocated |-> 0,
     function_calls |-> 0,
     security_events |-> <<>>,
     signature_verified |-> ~policy.require_signature]

SecurityViolation(violation_type, severity) ==
    [violation_type |-> violation_type, severity |-> severity]

Passed == [ok |-> TRUE, violation |-> SecurityViolation("none", "none")]

Denied(violation_type, severity) ==
    [ok |-> FALSE, violation |-> SecurityViolation(violation_type, severity)]

\* (Utc::now() - start_time).num_milliseconds() as u32
elapsed_ms(context) == (clock - context.execution_start.at) % U32Millis

\* SecurityContext::check_execution_time
check_execution_time(context) ==
    IF /\ context.execution_start.some
       /\ elapsed_ms(context) > context.policy.max_execution_time
    THEN Denied("ExecutionTimeExceeded", "High")
    ELSE Passed

\* self.memory_allocated + requested_memory, in a build without overflow checks
total_memory(context, requested_memory) ==
    (context.memory_allocated + requested_memory) % U32Bytes

\* the u32 addition overflows
Overflows(context, requested_memory) ==
    context.memory_allocated + requested_memory >= U32Bytes

\* SecurityContext::check_memory_limit
check_memory_limit(context, requested_memory) ==
    IF total_memory(context, requested_memory) > context.policy.max_memory
    THEN Denied("MemoryLimitExceeded", "High")
    ELSE Passed

\* SecurityContext::check_function_access
check_function_access(context, function_name) ==
    IF ~is_function_allowed(context.policy, function_name)
    THEN Denied("UnauthorizedFunctionCall", "Medium")
    ELSE Passed

SecurityEvent(event_type, container_id, severity) ==
    [event_type |-> event_type, container_id |-> container_id,
     severity |-> severity]

AuditEntry(action, container_id) ==
    [action |-> action, container_id |-> container_id]

\* SecurityContext::record_function_call
record_function_call(context, container_id) ==
    LET counted == [context EXCEPT !.function_calls = @ + 1]
    IN  IF counted.function_calls > SuspiciousCalls
        THEN [counted EXCEPT !.security_events =
                 Append(@, SecurityEvent("SuspiciousActivity", container_id,
                                         "Medium"))]
        ELSE counted

\* mutant: the event is not kept in the container's own log
add_security_eventDropped(context, security_event) == context

\* SecurityContext::add_security_event
add_security_event(context, security_event) ==
    [context EXCEPT !.security_events = Append(@, security_event)]

\* mutant: the functions are cleared, the limits of the policy are kept
block_containerKeepLimits(mgr, container_id) ==
    [mgr EXCEPT !.container_contexts[container_id].policy.allowed_functions = {}]

\* SecurityManager::block_container
block_container(mgr, container_id) ==
    [mgr EXCEPT !.container_contexts[container_id].policy =
        [strict EXCEPT !.allowed_functions = {}]]

\* SecurityManager::handle_security_violation, for a container with a context
handle_security_violation(mgr, container_id, violation) ==
    LET made   == SecurityEvent(violation.violation_type, container_id,
                                violation.severity)
        logged == [mgr EXCEPT
                      !.security_events = Append(@, made),
                      !.container_contexts[container_id] =
                          add_security_event(@, made),
                      !.audit_log =
                          Append(@, AuditEntry("SecurityViolation", container_id))]
    IN  IF violation.severity = "Critical"
        THEN block_container(logged, container_id)
        ELSE logged

Called(op, container_id, arg, ok, err) ==
    [op |-> op, id |-> container_id, arg |-> arg, ok |-> ok, err |-> err]

SecIdle == secCalls < MaxSecCalls

Known(container_id) == container_id \in DOMAIN manager.container_contexts

NotFound == "Container security context not found"

\* SecurityManager::apply_policy
apply_policy(container_id, policy) ==
    /\ SecIdle
    /\ secCalls' = secCalls + 1
    /\ manager' = [manager EXCEPT
           !.container_contexts = Insert(@, container_id, SecurityContext(policy)),
           !.audit_log = Append(@, AuditEntry("PolicyApplied", container_id))]
    /\ secLast' = Called("apply_policy", container_id, policy, TRUE, "")
    /\ UNCHANGED <<clock, elapses>>
    /\ UNCHANGED notSec

\* SecurityManager::validate_function_call
validate_function_call(container_id, function_name) ==
    /\ SecIdle
    /\ secCalls' = secCalls + 1
    /\ IF ~Known(container_id)
       THEN /\ secLast' = Called("validate_function_call", container_id,
                                 function_name, FALSE, NotFound)
            /\ UNCHANGED manager
       ELSE LET context == manager.container_contexts[container_id]
                access  == check_function_access(context, function_name)
                time    == check_execution_time(context)
            IN  IF ~access.ok
                THEN /\ manager' = handle_security_violation(manager,
                                       container_id, access.violation)
                     /\ secLast' = Called("validate_function_call", container_id,
                                       function_name, FALSE, "Function call denied")
                ELSE IF ~time.ok
                THEN /\ manager' = handle_security_violation(manager,
                                       container_id, time.violation)
                     /\ secLast' = Called("validate_function_call", container_id,
                                       function_name, FALSE,
                                       "Execution time exceeded")
                ELSE /\ manager' = [manager EXCEPT
                            !.container_contexts[container_id] =
                                record_function_call(@, container_id),
                            !.audit_log =
                                Append(@, AuditEntry("FunctionCalled", container_id))]
                     /\ secLast' = Called("validate_function_call", container_id,
                                       function_name, TRUE, "")
    /\ UNCHANGED <<clock, elapses>>
    /\ UNCHANGED notSec

\* SecurityManager::validate_memory_allocation; where the u32 addition
\* overflows, a build with overflow checks panics and one without wraps
validate_memory_allocation(container_id, size, overflow_checks) ==
    /\ SecIdle
    /\ secCalls' = secCalls + 1
    /\ IF ~Known(container_id)
       THEN /\ secLast' = Called("validate_memory_allocation", container_id,
                                 size, FALSE, NotFound)
            /\ UNCHANGED manager
       ELSE LET context == manager.container_contexts[container_id]
                limit   == check_memory_limit(context, size)
            IN  IF Overflows(context, size) /\ overflow_checks
                THEN /\ secLast' = Called("validate_memory_allocation",
                                       container_id, size, FALSE, "panic")
                     /\ UNCHANGED manager
                ELSE IF ~limit.ok
                THEN /\ manager' = handle_security_violation(manager,
                                       container_id, limit.violation)
                     /\ secLast' = Called("validate_memory_allocation",
                                       container_id, size, FALSE,
                                       "Memory allocation denied")
                ELSE /\ manager' = [manager EXCEPT
                            !.container_contexts[container_id].memory_allocated =
                                total_memory(context, size)]
                     /\ secLast' = Called("validate_memory_allocation",
                                       container_id, size, TRUE, "")
    /\ UNCHANGED <<clock, elapses>>
    /\ UNCHANGED notSec

\* SecurityManager::deallocate_memory
deallocate_memory(container_id, size) ==
    /\ SecIdle
    /\ secCalls' = secCalls + 1
    /\ manager' = IF Known(container_id)
                  THEN [manager EXCEPT
                           !.container_contexts[container_id].memory_allocated =
                               Saturating(@ - size)]
                  ELSE manager
    /\ secLast' = Called("deallocate_memory", container_id, size, TRUE, "")
    /\ UNCHANGED <<clock, elapses>>
    /\ UNCHANGED notSec

\* SecurityManager::start_execution
start_execution(container_id) ==
    /\ SecIdle
    /\ secCalls' = secCalls + 1
    /\ IF Known(container_id)
       THEN /\ manager' = [manager EXCEPT
                   !.container_contexts[container_id].execution_start =
                       [some |-> TRUE, at |-> clock]]
            /\ secLast' = Called("start_execution", container_id, 0, TRUE, "")
       ELSE /\ secLast' = Called("start_execution", container_id, 0, FALSE,
                                 NotFound)
            /\ UNCHANGED manager
    /\ UNCHANGED <<clock, elapses>>
    /\ UNCHANGED notSec

\* SecurityManager::verify_container_signature
verify_container_signature(container_id, signature, data) ==
    /\ SecIdle
    /\ secCalls' = secCalls + 1
    /\ IF ~Known(container_id)
       THEN /\ secLast' = Called("verify_container_signature", container_id,
                                 signature, FALSE, NotFound)
            /\ UNCHANGED manager
       ELSE LET context == manager.container_contexts[container_id]
            IN  IF ~context.policy.require_signature
                THEN /\ secLast' = Called("verify_container_signature",
                                       container_id, signature, TRUE, "")
                     /\ UNCHANGED manager
                ELSE IF signature # Sha256Hex(data)
                THEN /\ manager' = handle_security_violation(
                            [manager EXCEPT !.container_contexts[container_id]
                                                .signature_verified = FALSE],
                            container_id,
                            SecurityViolation("InvalidSignature", "Critical"))
                     /\ secLast' = Called("verify_container_signature",
                                       container_id, signature, FALSE,
                                       "Signature verification failed")
                ELSE /\ manager' = [manager EXCEPT
                            !.container_contexts[container_id]
                                .signature_verified = TRUE]
                     /\ secLast' = Called("verify_container_signature",
                                       container_id, signature, TRUE, "")
    /\ UNCHANGED <<clock, elapses>>
    /\ UNCHANGED notSec

\* SecurityManager::cleanup_container
cleanup_container(container_id) ==
    /\ SecIdle
    /\ secCalls' = secCalls + 1
    /\ manager' = [manager EXCEPT
           !.container_contexts =
               [id \in (DOMAIN @) \ {container_id} |-> @[id]],
           !.audit_log = Append(@, AuditEntry("ContainerCleaned", container_id))]
    /\ secLast' = Called("cleanup_container", container_id, 0, TRUE, "")
    /\ UNCHANGED <<clock, elapses>>
    /\ UNCHANGED notSec

\* SecurityManager::enable_threat_detection
enable_threat_detection(enabled) ==
    /\ SecIdle
    /\ secCalls' = secCalls + 1
    /\ manager' = [manager EXCEPT !.threat_detection_enabled = enabled]
    /\ secLast' = Called("enable_threat_detection", "", enabled, TRUE, "")
    /\ UNCHANGED <<clock, elapses>>
    /\ UNCHANGED notSec

\* context.policy.max_memory * 80 overflows the u32
ThresholdOverflows(context) == context.policy.max_memory * 80 >= U32Bytes

\* context.memory_allocated > context.policy.max_memory * 80 / 100, in a
\* build without overflow checks (both sides are multiples of 16 MiB / 100)
HighMemoryUse(context) ==
    100 * context.memory_allocated
        > (context.policy.max_memory * 80) % U32Bytes

\* the events detect_threats builds, one for each container with a high
\* memory use; the loop drops each of them at the end of its iteration
SuspiciousEvents ==
    {SecurityEvent("SuspiciousActivity", id, "Medium") :
        id \in {c \in DOMAIN manager.container_contexts :
                   HighMemoryUse(manager.container_contexts[c])}}

\* SecurityManager::detect_threats: nothing is stored; the multiplication
\* panics in a build with overflow checks when it overflows
detect_threats(overflow_checks) ==
    /\ SecIdle
    /\ secCalls' = secCalls + 1
    /\ secLast' =
           IF /\ manager.threat_detection_enabled
              /\ overflow_checks
              /\ \E id \in DOMAIN manager.container_contexts :
                     ThresholdOverflows(manager.container_contexts[id])
           THEN Called("detect_threats", "", SuspiciousEvents, FALSE, "panic")
           ELSE Called("detect_threats", "", SuspiciousEvents, TRUE, "")
    /\ UNCHANGED <<manager, clock, elapses>>
    /\ UNCHANGED notSec

\* time passes between two calls
Elapse(duration) ==
    /\ elapses < MaxElapses
    /\ elapses' = elapses + 1
    /\ clock' = clock + duration
    /\ UNCHANGED <<manager, secCalls, secLast>>
    /\ UNCHANGED notSec

\* SecurityManager::new
InitSec ==
    /\ manager = [container_contexts |-> <<>>, security_events |-> <<>>,
                  audit_log |-> <<>>, threat_detection_enabled |-> TRUE]
    /\ clock = 0
    /\ elapses = 0
    /\ secCalls = 0
    /\ secLast = Called("new", "", 0, TRUE, "")

\* the lazy statics before the first call
InitSnapshots ==
    /\ snapshots = EmptyMap
    /\ nextSnap = 1
    /\ snapRoot = EmptyMap
    /\ snapOrder = <<>>

\* the snapshot map after create_snapshot was called on the initial root
\* once for each id of StoredUuids, the ids coming out in increasing order
InitStoredSnapshots ==
    /\ snapshots = [id \in StoredUuids |-> to_vec(Obj(EmptyMap))]
    /\ nextSnap = Cardinality(StoredUuids) + 1
    /\ snapRoot = [id \in StoredUuids |-> Obj(EmptyMap)]
    /\ snapOrder = [k \in 1..Cardinality(StoredUuids) |-> Min(StoredUuids) + k - 1]

InitDocument ==
    /\ root = Obj(EmptyMap)
    /\ subs = <<>>
    /\ chan = <<>>
    /\ tasks = <<>>
    /\ nextSub = 1
    /\ mpc = "idle"
    /\ mop = NoOp
    /\ wpc = "recv"
    /\ wcmd = <<>>
    /\ wi = 1
    /\ wcur = Obj(EmptyMap)
    /\ calls = 0
    /\ ideal = Obj(EmptyMap)
    /\ partial = FALSE
    /\ wpre = Obj(EmptyMap)
    /\ wowed = {}
    /\ registered = {}
    /\ event = NoEvent
    /\ fanout = NoFanout
    /\ writer = [by |-> "none", v |-> Obj(EmptyMap)]
    /\ applied = NoApplied

InitStore == InitDocument /\ InitSnapshots

\* BatchUpdate::new()
InitBatch ==
    /\ updates = <<>>
    /\ added = <<>>

InitOthers == InitBatch /\ InitPool /\ InitSec /\ InitMem /\ InitState /\ InitMet
              /\ InitRt /\ InitCt

Init == InitStore /\ InitOthers

\* the store when the snapshot map is one short of its ceiling
InitSnap == InitDocument /\ InitStoredSnapshots /\ InitOthers

Next ==
    \/ \E payload \in SetPayloads : dispatch_SET(payload)
    \/ \E payload \in MergePayloads : dispatch_MERGE(payload)
    \/ merge_store
    \/ \E update \in UpdatePayloads : dispatch_UPDATE(update)
    \/ \E batch_updates \in BatchPayloads : dispatch_BATCH(batch_updates)
    \/ return_current
    \/ \E path \in SelectPaths : select(path)
    \/ \E callback \in Callbacks : subscribe(callback)
    \/ \E id \in 0..(nextSub - 1) : unsubscribe(id)
    \/ create_snapshot
    \/ \E id \in 0..(nextSnap - 1) : restore_snapshot(id)
    \/ notify
    \/ run_task
    \/ worker_recv
    \/ worker_load
    \/ worker_store
    \/ worker_notify

Spec == Init /\ [][Next]_vars

\* the store driven through init_store, SET, the BatchUpdate object and select
NextBatch ==
    \/ \E initial_state \in InitPayloads : init_store(initial_state)
    \/ \E payload \in SetPayloads : dispatch_SET(payload)
    \/ notify
    \/ \E update \in AddPayloads : add(update)
    \/ execute
    \/ return_current
    \/ \E path \in BatchSelectPaths : select(path)
    \/ worker_recv
    \/ worker_load
    \/ worker_store
    \/ worker_notify

SpecBatch == Init /\ [][NextBatch]_vars

\* the store driven through SET, UPDATE, BATCH and the BatchUpdate object
NextWorker ==
    \/ \E payload \in SetPayloads : dispatch_SET(payload)
    \/ notify
    \/ \E update \in UpdatePayloads : dispatch_UPDATE(update)
    \/ \E batch_updates \in BatchPayloads : dispatch_BATCH(batch_updates)
    \/ \E update \in AddPayloads : add(update)
    \/ execute
    \/ return_current
    \/ worker_recv
    \/ worker_load
    \/ worker_store
    \/ worker_notify

\* std::thread::spawn: the worker's thread is scheduled whenever it can run
WorkerRuns ==
    /\ WF_vars(worker_recv)
    /\ WF_vars(worker_load)
    /\ WF_vars(worker_store)
    /\ WF_vars(worker_notify)

SpecWorker == Init /\ [][NextWorker]_vars /\ WorkerRuns


NextPool ==
    \/ \E size \in 0..PoolSize : allocate(size)
    \/ \E offset \in 0..PoolSize : deallocate(offset)
    \/ garbage_collect
    \/ Tick

SpecPool == Init /\ [][NextPool]_vars

NextSec ==
    \/ \E id \in ContainerIds, policy \in Policies : apply_policy(id, policy)
    \/ \E id \in ContainerIds, name \in FunctionNames :
           validate_function_call(id, name)
    \/ \E id \in ContainerIds, size \in Sizes, overflow_checks \in BOOLEAN :
           validate_memory_allocation(id, size, overflow_checks)
    \/ \E id \in ContainerIds, size \in Sizes : deallocate_memory(id, size)
    \/ \E id \in ContainerIds : start_execution(id)
    \/ \E id \in ContainerIds, signature \in Signatures, data \in Datas :
           verify_container_signature(id, signature, data)
    \/ \E id \in ContainerIds : cleanup_container(id)
    \/ \E enabled \in BOOLEAN : enable_threat_detection(enabled)
    \/ \E overflow_checks \in BOOLEAN : detect_threats(overflow_checks)
    \/ \E duration \in Durations : Elapse(duration)

SpecSec == Init /\ [][NextSec]_vars

NextMem ==
    \/ \E id \in MemIds, size \in MemSizes, overflow_checks \in BOOLEAN :
           allocate_container(id, size, overflow_checks)
    \/ \E id \in MemIds : deallocate_container(id)
    \/ \E id \in MemIds, size \in BlockSizes : allocate_block(id, size)
    \/ \E id \in MemIds, offset \in BlockOffsets : deallocate_block(id, offset)
    \/ memory_cleanup
    \/ MemTick

SpecMem == Init /\ [][NextMem]_vars

\* the store driven through init_store, MERGE, UPDATE and select
NextDoc ==
    \/ \E initial_state \in DocInitPayloads : init_store(initial_state)
    \/ \E payload \in DocMergePayloads : dispatch_MERGE(payload)
    \/ merge_store
    \/ notify
    \/ \E update \in DocUpdatePayloads : dispatch_UPDATE(update)
    \/ return_current
    \/ \E path \in SelectPaths : select(path)
    \/ worker_recv
    \/ worker_load
    \/ worker_store
    \/ worker_notify

SpecDoc == Init /\ [][NextDoc]_vars

\* the store driven through SET, the snapshot functions and cleanup
NextSnap ==
    \/ \E payload \in SetPayloads : dispatch_SET(payload)
    \/ notify
    \/ \E id \in Uuids : create_snapshot_as(id)
    \/ \E id \in Uuids \cup {Min(StoredUuids)} : restore_snapshot(id)
    \/ cleanup

SpecSnap == InitSnap /\ [][NextSnap]_vars

NextState ==
    \/ \E id \in StateIds, state \in StateInputs : initialize_container(id, state)
    \/ \E id \in StateIds, state \in StateInputs : update_container(id, state)
    \/ \E id \in StateIds : remove_container(id)
    \/ \E id \in StateIds, version \in Versions : rollback_to_version(id, version)

SpecState == Init /\ [][NextState]_vars

NextSeries ==
    \/ \E n \in SmallMaxSamples, h \in SmallRetentionHours : new_series(n, h)
    \/ \E value \in SampleValues : series_add_sample(value)
    \/ MetTick

SpecSeries == Init /\ [][NextSeries]_vars

NextMetrics ==
    \/ \E id \in MetricIds : register_container(id)
    \/ \E id \in MetricIds, t \in ExecutionTimes :
           collector_record_function_call(id, "f", t)
    \/ \E id \in MetricIds : generate_performance_report(id)
    \/ \E t \in LoweredThresholds : set_alert_threshold(t)
    \/ \E enabled \in BOOLEAN : enable_monitoring(enabled)
    \/ MetTick

SpecMetrics == Init /\ [][NextMetrics]_vars

NextRuntime ==
    \/ \E runtime_type \in RuntimeTypes : select_runtime(runtime_type)
    \/ \E req \in Requirements, order \in IterationOrders :
           auto_select_runtime(req, order)
    \/ \E runtime_type \in {"browser", "wasmedge"}, success \in BOOLEAN :
           runtime_record_execution(runtime_type, success)
    \/ \E enabled \in BOOLEAN : enable_auto_selection(enabled)
    \/ \E runtime_type \in RuntimeTypes : set_fallback_runtime(runtime_type)

SpecRuntime == Init /\ [][NextRuntime]_vars

NextContainer ==
    \/ \E function_name \in CalledFunctions : call_function(function_name)
    \/ stop
    \/ pause
    \/ resume
    \/ reset_state

SpecContainer == Init /\ [][NextContainer]_vars

(***************************************************************************)
(* Claims about the store (checked under Spec).                            *)
(***************************************************************************)
\* C1: a batch commits as a single point: no select and no subscriber
\* callback observes a root in which some but not all of the batch's updates
\* have been applied.
C1_NoPartialBatchObserved ==
    event.kind \in {"select", "callback"} => ~event.partial

\* C2: no commit is lost when writers race: the root is always the result of
\* the commits made so far, each applied to the root its swap replaced.
C2_NoCommitLost == root = ideal

\* C3: dispatch UPDATE is committed by the time it returns: the root it
\* returns holds the value at the path.
C3_UpdateCommittedOnReturn ==
    (event.kind = "return" /\ event.op = "UPDATE") =>
        get_nested_value_fast(event.result,
            parse_path_optimized(event.arg[1].path)) = event.arg[1].value

C9_UnsubscribeRemovesOnlyItsOwn ==
    \A r \in registered : r.cb \in Range(subs)

\* C10: every fan-out scheduled for a commit goes to every subscriber that
\* was registered before the commit and has not itself been unsubscribed.
C10_EveryCommitNotifiesRegistered ==
    fanout.owed \subseteq fanout.callbacks

\* C11: a fan-out for a commit goes only to callbacks that were registered
\* when that commit's root was installed: a subscription made after the swap
\* is not called back for it.
C11_OnlySubscribersBeforeCommit ==
    fanout.callbacks \subseteq fanout.eligible

(***************************************************************************)
(* Claims about updates and batches (checked under SpecBatch).             *)
(***************************************************************************)
\* a segment before the last one resolves to an existing value that is not
\* a mapping
PathConflict(state, parts) ==
    \E n \in 1..(Len(parts) - 1) :
        LET node == get_nested_value_fast(state, SubSeq(parts, 1, n))
        IN  node # Undefined /\ ~IsObject(node)

\* the update the worker last went through, and its parsed path
AppliedUpdate == applied.cmd[applied.index]

AppliedParts == parse_path_optimized(AppliedUpdate.path)

\* C12: when an operation of a batch fails on a path conflict (and no other
\* writer has touched the root since the batch started), the whole batch is
\* aborted: the root is the pre-batch root, the operations before the failing
\* one included.
C12_FailedBatchIsAborted ==
    (/\ applied.index > 0
     /\ applied.alone
     /\ PathConflict(applied.cur, AppliedParts))
        => applied.stored = applied.pre

\* C13: an update of a root that is a mapping creates the missing
\* intermediate mappings and sets the value at the path; on a path conflict it
\* leaves the root unchanged and an error is returned to the caller; it fails
\* in no other case.
C13_UpdateSetsOrReportsConflict ==
    (applied.index > 0 /\ applied.alone /\ IsObject(applied.cur)) =>
        IF PathConflict(applied.cur, AppliedParts)
        THEN applied.stored = applied.cur /\ event.kind = "error"
        ELSE /\ ~applied.panic
             /\ get_nested_value_fast(applied.stored, AppliedParts)
                    = AppliedUpdate.value

\* the operations of cmd applied one after another to state
RECURSIVE InOrder(_, _)
InOrder(cmd, state) ==
    IF cmd = <<>> THEN state
    ELSE InOrder(Tail(cmd),
             set_nested_value_fast(state, parse_path_optimized(Head(cmd).path),
                                   Head(cmd).value).root)

Member(v, k) ==
    IF IsObject(v) /\ k \in DOMAIN v.m THEN v.m[k] ELSE Undefined

\* the select was made while the root installed by init_store or SET stood
SelectAfterWholeWrite ==
    event.kind = "select" /\ event.writer.by \in {"init_store", "SET"}

\* a key that is one path segment: not empty and without a dot
PlainKey(k) == k # <<>> /\ \A i \in 1..Len(k) : k[i] # "."

Last(seq) == seq[Len(seq)]

\* this step is a call of op on a container that has a security context
SecCall(op) ==
    /\ secCalls' = secCalls + 1
    /\ secLast'.op = op
    /\ secLast'.id \in DOMAIN manager.container_contexts

ContextBefore == manager.container_contexts[secLast'.id]

ContextAfter == manager'.container_contexts[secLast'.id]

\* allowed functions empty, at most 16 MiB, at most 1 s, signature required
StrictLike(policy) ==
    /\ policy.allowed_functions = {}
    /\ policy.max_memory <= 1
    /\ policy.max_execution_time <= 125
    /\ policy.require_signature

\* C16: a failed signature verification (a Critical violation) leaves the
\* container with the strict policy, and a container's policy changes only
\* when a policy is applied or when such a verification fails: it stays
\* strict until then, and violations of lower severity never change it.
C16_CriticalViolationBlocks ==
    /\ [][(/\ SecCall("verify_container_signature")
           /\ secLast'.err = "Signature verification failed")
              => StrictLike(ContextAfter.policy)]_vars
    /\ [][\A id \in (DOMAIN manager.container_contexts)
                       \cap (DOMAIN manager'.container_contexts) :
              manager'.container_contexts[id].policy
                      # manager.container_contexts[id].policy
                  => \/ secLast'.op = "apply_policy"
                     \/ secLast'.err = "Signature verification failed"]_vars

\* C16 witness: a container that had allocated 64 MiB under a policy that
\* requires a signature has failed the verification and is now blocked.
C16_Witness ==
    /\ secLast.op = "verify_container_signature"
    /\ secLast.err = "Signature verification failed"
    /\ manager.container_contexts[secLast.id].memory_allocated = 4
    /\ manager.container_contexts[secLast.id].policy
           = [strict EXCEPT !.allowed_functions = {}]

\* the rule of the policy: not blocked, and allowed-functions empty or
\* containing the name
AllowedByRule(policy, name) ==
    /\ name \notin policy.blocked_functions
    /\ policy.allowed_functions = {} \/ name \in policy.allowed_functions

\* the call was denied as an UnauthorizedFunctionCall and was not counted
DeniedAsUnauthorized ==
    /\ ~secLast'.ok
    /\ secLast'.err = "Function call denied"
    /\ Len(manager'.security_events) = Len(manager.security_events) + 1
    /\ Last(manager'.security_events).event_type = "UnauthorizedFunctionCall"
    /\ ContextAfter.function_calls = ContextBefore.function_calls

\* C17 as stated: validate_function_call accepts exactly when the rule of the
\* policy allows the name, and a denial is an UnauthorizedFunctionCall that is
\* not counted as a call.
C17_FunctionRuleDecides ==
    [][SecCall("validate_function_call") =>
          /\ secLast'.ok <=> AllowedByRule(ContextBefore.policy, secLast'.arg)
          /\ ~secLast'.ok => DeniedAsUnauthorized]_vars

\* C17 amended: a name the rule does not allow is denied as an
\* UnauthorizedFunctionCall and not counted; a name it allows is accepted and
\* counted when the execution-time check passes, and denied with "Execution
\* time exceeded" when it does not.
C17_FunctionRuleThenTime ==
    [][SecCall("validate_function_call") =>
          IF ~AllowedByRule(ContextBefore.policy, secLast'.arg)
          THEN DeniedAsUnauthorized
          ELSE IF check_execution_time(ContextBefore).ok
          THEN /\ secLast'.ok
               /\ ContextAfter.function_calls = ContextBefore.function_calls + 1
          ELSE /\ ~secLast'.ok
               /\ secLast'.err = "Execution time exceeded"]_vars

\* C17 witness: a name that is both allowed and blocked has been denied.
C17_Witness ==
    /\ secLast.op = "validate_function_call"
    /\ secLast.err = "Function call denied"
    /\ secLast.arg \in manager.container_contexts[secLast.id].policy.allowed_functions
    /\ secLast.arg \in manager.container_contexts[secLast.id].policy.blocked_functions

\* C18: validate_memory_allocation succeeds exactly when used + size is at
\* most max-memory and then adds size to the used memory; when it is denied
\* the used memory is unchanged and a MemoryLimitExceeded violation is
\* recorded.
C18_AllocationWithinLimit ==
    [][SecCall("validate_memory_allocation") =>
          /\ secLast'.ok <=>
                 ContextBefore.memory_allocated + secLast'.arg
                     <= ContextBefore.policy.max_memory
          /\ secLast'.ok =>
                 ContextAfter.memory_allocated
                     = ContextBefore.memory_allocated + secLast'.arg
          /\ ~secLast'.ok =>
                 /\ ContextAfter.memory_allocated = ContextBefore.memory_allocated
                 /\ Len(manager'.security_events)
                        = Len(manager.security_events) + 1
                 /\ Last(manager'.security_events).event_type
                        = "MemoryLimitExceeded"]_vars

\* the type of the violation behind each denial
ViolationOf(err) ==
    CASE err = "Function call denied" -> "UnauthorizedFunctionCall"
      [] err = "Execution time exceeded" -> "ExecutionTimeExceeded"
      [] err = "Memory allocation denied" -> "MemoryLimitExceeded"
      [] err = "Signature verification failed" -> "InvalidSignature"
      [] OTHER -> "none"

\* C19: every denied call appends exactly one SecurityEvent (of the
\* violation's type, for the container) to the global log, the same event to
\* the container's log, and exactly one SecurityViolation entry to the audit
\* log.
C19_ViolationLoggedEverywhere ==
    [][(secCalls' = secCalls + 1 /\ ViolationOf(secLast'.err) # "none") =>
          LET made == Last(manager'.security_events)
          IN  /\ made.event_type = ViolationOf(secLast'.err)
              /\ made.container_id = secLast'.id
              /\ manager'.security_events = Append(manager.security_events, made)
              /\ ContextAfter.security_events
                     = Append(ContextBefore.security_events, made)
              /\ manager'.audit_log
                     = Append(manager.audit_log,
                              AuditEntry("SecurityViolation", secLast'.id))]_vars

\* C19 witness: two violations of different types are in the global log and
\* in the container's log.
C19_Witness ==
    /\ ViolationOf(secLast.err) # "none"
    /\ Len(manager.security_events) = 2
    /\ manager.security_events[1].event_type # manager.security_events[2].event_type
    /\ manager.container_contexts[secLast.id].security_events
           = manager.security_events

\* C20: for a function the policy allows, once the time since
\* start_execution exceeds max-execution-time validate_function_call fails
\* with "Execution time exceeded", the call is not counted and no
\* FunctionCalled entry is written; within the limit the call passes.
C20_ExpiredCallsFail ==
    [][(/\ SecCall("validate_function_call")
        /\ ContextBefore.execution_start.some
        /\ AllowedByRule(ContextBefore.policy, secLast'.arg)) =>
          IF clock - ContextBefore.execution_start.at
                 > ContextBefore.policy.max_execution_time
          THEN /\ ~secLast'.ok
               /\ secLast'.err = "Execution time exceeded"
               /\ ContextAfter.function_calls = ContextBefore.function_calls
               /\ Last(manager'.audit_log).action # "FunctionCalled"
          ELSE secLast'.ok]_vars

\* the events of type SuspiciousActivity for container id in a log
SuspiciousIn(log, id) ==
    {i \in 1..Len(log) : /\ log[i].event_type = "SuspiciousActivity"
                         /\ log[i].container_id = id}

\* C21: detect_threats records a SuspiciousActivity event for every container
\* whose used memory exceeds 0.8 x max-memory or whose function-call count
\* exceeds 10 000, and changes no container's policy.
C21_ThreatsAreFlagged ==
    [][(/\ secCalls' = secCalls + 1
        /\ secLast'.op = "detect_threats"
        /\ manager.threat_detection_enabled) =>
          \A id \in DOMAIN manager.container_contexts :
              LET context == manager.container_contexts[id]
              IN  /\ manager'.container_contexts[id].policy = context.policy
                  /\ (\/ 5 * context.memory_allocated > 4 * context.policy.max_memory
                      \/ context.function_calls > 10000)
                         => \/ SuspiciousIn(manager'.security_events, id)
                                   # SuspiciousIn(manager.security_events, id)
                            \/ SuspiciousIn(manager'.container_contexts[id]
                                                .security_events, id)
                                   # SuspiciousIn(context.security_events, id)]_vars

(***************************************************************************)
(* Claims about the root document (checked under SpecDoc, C29 under Spec). *)
(***************************************************************************)
\* C26: the empty path is the root: it parses to the empty sequence, and an
\* update with path "" makes the given value the whole root, which is what
\* select("") then returns.
C26_EmptyPathIsTheRoot ==
    (applied.index > 0 /\ AppliedUpdate.path = <<>>) =>
        /\ AppliedParts = <<>>
        /\ applied.stored = AppliedUpdate.value
        /\ Selected(applied.stored, <<>>) = AppliedUpdate.value

\* C27: a MERGE that found a root that is not a mapping returns an error to
\* the caller, and its store leaves the root as it is.
C27_MergeRejectsNonMappingRoot ==
    /\ [][(/\ mpc = "merge_store"
           /\ mpc' = "notify"
           /\ ~IsObject(mop.cur)) => root' = root]_vars
    /\ [][(/\ mpc = "notify"
           /\ mpc' = "idle"
           /\ mop.op = "MERGE"
           /\ ~IsObject(mop.cur)) => event'.kind = "error"]_vars

\* C28: a MERGE of the mapping m into the mapping root r it found installs a
\* mapping over the keys of both in which every key of m holds m's value,
\* whatever r held there, and every other key of r holds r's value.
C28_MergeIsShallow ==
    [][(/\ mpc = "merge_store"
        /\ mpc' = "notify"
        /\ IsObject(mop.cur)
        /\ IsObject(mop.arg)) =>
          /\ IsObject(root')
          /\ DOMAIN root'.m = (DOMAIN mop.cur.m) \cup (DOMAIN mop.arg.m)
          /\ \A k \in DOMAIN mop.arg.m : root'.m[k] = mop.arg.m[k]
          /\ \A k \in (DOMAIN mop.cur.m) \ (DOMAIN mop.arg.m) :
                 root'.m[k] = mop.cur.m[k]]_vars

\* a MERGE has just replaced the nested mapping under "a" and kept "b"
C28_Witness ==
    /\ mpc = "notify"
    /\ mop.op = "MERGE"
    /\ mop.cur = NestedRoot
    /\ KeyA \in DOMAIN mop.arg.m
    /\ root = mop.ret
    /\ root.m[KeyA] = mop.arg.m[KeyA]
    /\ root.m[KeyA] # mop.cur.m[KeyA]
    /\ root.m[KeyB] = mop.cur.m[KeyB]

\* the call just made is restore_snapshot(snapshot_id)
Restoring(snapshot_id) ==
    /\ calls' = calls + 1
    /\ \/ mop'.op = "RESTORE" /\ mop'.arg = snapshot_id
       \/ /\ mpc' = "idle"
          /\ event'.kind = "error"
          /\ event'.op = "RESTORE"
          /\ event'.arg = snapshot_id

\* C29: restore_snapshot with an id that is not in the snapshot map returns
\* the error "Snapshot not found", leaves the root unchanged and schedules no
\* notification.
C29_UnknownSnapshotIsNotFound ==
    [][\A id \in 0..nextSnap :
          (id \notin DOMAIN snapshots /\ Restoring(id)) =>
              /\ event' = [kind |-> "error", op |-> "RESTORE", arg |-> id,
                           result |-> "Snapshot not found"]
              /\ mpc' = "idle"
              /\ root' = root
              /\ tasks' = tasks
              /\ fanout' = fanout]_vars

\* a restore of an unknown id has failed while a snapshot and a subscriber
\* exist
C29_Witness ==
    /\ event.kind = "error"
    /\ event.op = "RESTORE"
    /\ event.result = "Snapshot not found"
    /\ event.arg \notin DOMAIN snapshots
    /\ DOMAIN snapshots # {}
    /\ subs # <<>>

\* C30: init_store on a store that init_store has already created fails and
\* leaves the root unchanged.
C30_SecondCreationFails ==
    [][(/\ calls' = calls + 1
        /\ event'.op = "init_store"
        /\ writer.by = "init_store") =>
          /\ event'.kind = "error"
          /\ root' = root]_vars

(***************************************************************************)
(* Claims about snapshot retention (checked under SpecSnap).               *)
(***************************************************************************)
\* the rank of creation of a snapshot
Rank(snapshot_id) ==
    CHOOSE k \in 1..Len(snapOrder) : snapOrder[k] = snapshot_id

\* C24: whenever snapshots are evicted, every evicted snapshot was created
\* before every snapshot that is retained.
C24_EvictionIsOldestFirst ==
    [][\A evicted \in DOMAIN snapshots \ DOMAIN snapshots' :
          \A retained \in DOMAIN snapshots' :
              Rank(evicted) < Rank(retained)]_vars

(***************************************************************************)
(* Claims about the memory manager (checked under SpecMem).                *)
(***************************************************************************)
MemCall(op) == memCalls' = memCalls + 1 /\ memLast'.op = op

\* C22: allocate_container(id, size) fails, creating no pool and changing no
\* counter, when total_allocated + size exceeds the global limit;
\* total_allocated never exceeds global_limit; deallocate_container(id) of an
\* existing pool gives the pool's total size back.
C22_GlobalLimitHolds ==
    [][/\ (/\ MemCall("allocate_container")
           /\ memory_manager.total_allocated + memLast'.arg
                  > memory_manager.global_limit)
          => /\ ~memLast'.ok
             /\ memory_manager' = memory_manager
       /\ memory_manager'.total_allocated <= memory_manager'.global_limit
       /\ (/\ MemCall("deallocate_container")
           /\ memLast'.id \in DOMAIN memory_manager.container_pools)
          => /\ memLast'.id \notin DOMAIN memory_manager'.container_pools
             /\ memory_manager'.total_allocated =
                    memory_manager.total_allocated
                      - memory_manager.container_pools[memLast'.id].total_size
      ]_vars

\* C39: total_allocated equals the sum of total_size over the registered
\* pools.
C39_TotalIsSumOfPools ==
    memory_manager.total_allocated
        = values_sum([c \in DOMAIN memory_manager.container_pools |->
                         memory_manager.container_pools[c].total_size])

\* C37: deallocate_block with an offset at which no allocated block of the
\* container's pool starts returns an error and changes nothing: not the
\* pool's blocks and used_size, not the container's statistics.
C37_InvalidFreeChangesNothing ==
    [][(/\ MemCall("deallocate_block")
        /\ memLast'.id \in DOMAIN memory_manager.container_pools
        /\ Allocated(memory_manager.container_pools[memLast'.id].blocks,
                     memLast'.arg) = {})
          => /\ ~memLast'.ok
             /\ memory_manager' = memory_manager]_vars

\* a double free: the one block ever allocated in the pool, at offset 0, has
\* been released and its release has just been asked again
C37_Witness ==
    /\ memLast.op = "deallocate_block"
    /\ memLast.err = "Invalid memory address"
    /\ memLast.arg = 0
    /\ memLast.id \in DOMAIN memory_manager.container_stats
    /\ memory_manager.container_stats[memLast.id].allocations = 1
    /\ memory_manager.container_stats[memLast.id].deallocations = 1

(***************************************************************************)
(* Claims about the state manager (checked under SpecState).               *)
(***************************************************************************)
StCall(op) == stCalls' = stCalls + 1 /\ stLast'.op = op

\* C23: the versions of the successive snapshots of one container are
\* strictly increasing, so that a version identifies at most one snapshot;
\* and a successful rollback to a version installs the state of the one
\* snapshot that has that version.
C23_VersionsStrictlyIncrease ==
    /\ [](\A id \in DOMAIN state_manager.state_history :
            LET snaps == state_manager.state_history[id].snapshots
            IN  \A i, j \in 1..Len(snaps) :
                    i < j => snaps[i].version < snaps[j].version)
    /\ [][(StCall("rollback_to_version") /\ stLast'.ok) =>
            LET snaps == state_manager.state_history[stLast'.id].snapshots
            IN  \A i \in 1..Len(snaps) :
                    snaps[i].version = stLast'.arg =>
                        state_manager'.container_states[stLast'.id]
                            = snaps[i].state]_vars

IsSuffix(s, t) ==
    Len(s) <= Len(t) /\ s = SubSeq(t, Len(t) - Len(s) + 1, Len(t))

\* C25: after every call that adds a snapshot, every history holds at most
\* max_snapshots snapshots and at most max_size bytes, its total_size is the
\* sum of the sizes of its snapshots, and what it holds is the most recent
\* part, in creation order, of what it held before plus the new snapshot.
C25_HistoryKeepsTheMostRecent ==
    [][((StCall("initialize_container") \/ StCall("update_container"))
           /\ stLast'.ok) =>
          \A id \in DOMAIN state_manager'.state_history :
              LET history == state_manager'.state_history[id]
                  after  == history.snapshots
                  before == IF /\ id \in DOMAIN state_manager.state_history
                               /\ ~(/\ stLast'.op = "initialize_container"
                                    /\ stLast'.id = id)
                            THEN state_manager.state_history[id].snapshots
                            ELSE <<>>
              IN  /\ Len(after) <= history.max_snapshots
                  /\ history.total_size <= history.max_size
                  /\ history.total_size = sizes_sum(after)
                  /\ \/ IsSuffix(after, before)
                     \/ /\ id = stLast'.id
                        /\ IsSuffix(after,
                                    Append(before,
                                           StateSnapshot(id, stLast'.arg,
                                                         stCalls')))]_vars

\* the context has logged a Critical violation: the container has been
\* blocked since its policy was last applied (apply_policy starts a new
\* context with an empty log)
Blocked(context) ==
    \E i \in 1..Len(context.security_events) :
        context.security_events[i].severity = "Critical"

\* C35: for a container that has been blocked and has not been given a new
\* policy since, validate_function_call denies every function name.
C35_BlockedDeniesEveryFunction ==
    [][(SecCall("validate_function_call") /\ Blocked(ContextBefore))
          => ~secLast'.ok]_vars

\* C38: the memory_allocated of every container is at most the max_memory of
\* its current policy.
C38_AllocatedWithinCurrentPolicy ==
    \A id \in DOMAIN manager.container_contexts :
        manager.container_contexts[id].memory_allocated
            <= manager.container_contexts[id].policy.max_memory

\* C40: every initialize_container, update_container and remove_container
\* call returns: none ends in the unbounded mutual recursion of
\* update_memory_usage and emergency_cleanup, also when the usage stays above
\* max_memory_usage after an emergency cleanup.
C40_EveryCallReturns ==
    stLast.op \in {"initialize_container", "update_container", "remove_container"}
        => stLast.err # StackOverflow

(***************************************************************************)
(* Claims about the worker's progress (checked under SpecWorker).          *)
(***************************************************************************)
\* commands whose paths are single keys: they hit no path conflict
ValidCommands == {<<Update(<<"a">>, Num(2))>>} \cup BatchPayloads

\* dispatch or execute has sent cmd and is about to return Ok
Accepted(cmd) ==
    /\ mpc = "return_current"
    /\ mop.op \in {"UPDATE", "BATCH", "execute"}
    /\ mop.arg = cmd

\* the worker has run apply_update for every update of cmd
AppliedByWorker(cmd) ==
    /\ applied.cmd = cmd
    /\ applied.index = Len(cmd)
    /\ ~applied.panic

\* C34: every valid UPDATE or BATCH accepted by dispatch or by
\* BatchUpdate.execute is eventually applied by the worker, also when an
\* earlier update hit a path conflict.
C34_AcceptedIsEventuallyApplied ==
    \A cmd \in ValidCommands : Accepted(cmd) ~> AppliedByWorker(cmd)

(***************************************************************************)
(* Claims about the metrics (checked under SpecSeries and SpecMetrics).    *)
(***************************************************************************)
MetCall(op) == metCalls' = metCalls + 1 /\ metLast'.op = op

\* C31: after any add_sample the series holds at most max_samples samples,
\* none of them older than the retention window, and what it holds is the
\* most recent part, in insertion order, of the samples it was given.
C31_SeriesIsBoundedAndRecent ==
    [][MetCall("add_sample")
          => /\ Len(series'.samples) <= series'.max_samples
             /\ \A i \in 1..Len(series'.samples) :
                    series'.samples[i].timestamp
                        >= perfNow' - series'.retention_duration
             /\ IsSuffix(series'.samples, seriesAdded')]_vars

\* an add_sample has dropped a sample for its age and another for the count
C31_Witness ==
    /\ metLast.op = "add_sample"
    /\ Len(series.samples) = series.max_samples
    /\ Len(seriesAdded) >= Len(series.samples) + 2
    /\ seriesAdded[1].timestamp < perfNow - series.retention_duration
    /\ seriesAdded[2].timestamp >= perfNow - series.retention_duration

\* the execution times recorded for the container: its execution_time series
Recorded(container_id) ==
    collector.time_series[container_id].execution_time.samples

\* C32: when the execution times recorded for a container exceed the
\* execution_time threshold, the container's performance report contains an
\* alert with metric execution_time and level Warning.
C32_SlowExecutionsRaiseAWarning ==
    (/\ metLast.op = "generate_performance_report"
     /\ metLast.ok
     /\ Recorded(metLast.id) # <<>>
     /\ \A i \in 1..Len(Recorded(metLast.id)) :
            Recorded(metLast.id)[i].value > collector.alert_thresholds.execution_time)
        => \E i \in 1..Len(metLast.alerts) :
               /\ metLast.alerts[i].metric = "execution_time"
               /\ metLast.alerts[i].level = "Warning"

(***************************************************************************)
(* Claims about the runtime engine (checked under SpecRuntime).            *)
(***************************************************************************)
RtCall(op) == rtCalls' = rtCalls + 1 /\ rtLast'.op = op

\* the registered runtimes that support every required feature
Qualifying(requirements) ==
    {runtime_type \in RuntimeTypes :
        requirements.required_features
            \subseteq available_runtimes[runtime_type].supported_features}

\* what the claim asks of one auto_select_runtime call
SelectsAsRequired ==
    /\ Qualifying(rtLast'.arg) # {} => rtLast'.ret \in Qualifying(rtLast'.arg)
    /\ Qualifying(rtLast'.arg) = {} => rtLast'.ret = engine.fallback_runtime
    /\ engine'.current_runtime = rtLast'.ret

CtCall(op) == ctCalls' = ctCalls + 1 /\ ctLast'.op = op

\* C36: the status changes only by pause from Running to Paused, by resume
\* from Paused to Running and by stop to Stopped; pause and resume in any
\* other status fail and leave the status as it is; a Stopped container
\* stays Stopped; call_function is rejected unless the status is Running.
C36_StatusFollowsTheLifecycle ==
    [][/\ container'.status # container.status
            => \/ /\ CtCall("pause")
                  /\ container.status = "Running"
                  /\ container'.status = "Paused"
               \/ /\ CtCall("resume")
                  /\ container.status = "Paused"
                  /\ container'.status = "Running"
               \/ CtCall("stop") /\ container'.status = "Stopped"
       /\ CtCall("pause") /\ container.status = "Running"
            => ctLast'.ok /\ container'.status = "Paused"
       /\ CtCall("resume") /\ container.status = "Paused"
            => ctLast'.ok /\ container'.status = "Running"
       /\ CtCall("stop") => ctLast'.ok /\ container'.status = "Stopped"
       /\ CtCall("pause") /\ container.status # "Running"
            => ~ctLast'.ok /\ container'.status = container.status
       /\ CtCall("resume") /\ container.status # "Paused"
            => ~ctLast'.ok /\ container'.status = container.status
       /\ container.status = "Stopped" => container'.status = "Stopped"
       /\ CtCall("call_function") /\ container.status # "Running"
            => ~ctLast'.ok /\ ctLast'.err = "Container is not running"]_vars

\* a container that was paused, resumed and stopped has refused a resume
C36_Witness ==
    /\ ctLast.op = "resume"
    /\ ~ctLast.ok
    /\ container.status = "Stopped"
    /\ ctCalls >= 4

(***************************************************************************)
(* Claims about the memory pool (checked under SpecPool).                  *)
(***************************************************************************)
RECURSIVE SumSizes(_, _)
SumSizes(bs, onlyUsed) ==
    IF bs = <<>> THEN 0
    ELSE (IF onlyUsed /\ Head(bs).is_free THEN 0 ELSE Head(bs).size)
         + SumSizes(Tail(bs), onlyUsed)

AdjacentFree(bs) ==
    \E i, j \in 1..Len(bs) :
        /\ i # j
        /\ bs[i].is_free
        /\ bs[j].is_free
        /\ bs[i].offset + bs[i].size = bs[j].offset

Disjoint(a, b) ==
    \/ a.offset + a.size <= b.offset
    \/ b.offset + b.size <= a.offset

\* C5: after every successful deallocate, no two free blocks of the pool are
\* address-adjacent (no free A, B with A.offset + A.size = B.offset).
C5_NoAdjacentFreeAfterDeallocate ==
    (lastCall.op = "deallocate" /\ lastCall.ok) => ~AdjacentFree(blocks)

\* C6: after any sequence of allocate, deallocate and garbage_collect the
\* blocks partition [0, total_size): the sizes sum to total_size, every block
\* lies inside the pool and no two blocks overlap.
C6_BlocksPartitionPool ==
    /\ SumSizes(blocks, FALSE) = PoolSize
    /\ \A i \in 1..Len(blocks) :
           /\ blocks[i].offset >= 0
           /\ blocks[i].offset + blocks[i].size <= PoolSize
    /\ \A i, j \in 1..Len(blocks) : i # j => Disjoint(blocks[i], blocks[j])

\* C7: used_size is the sum of the sizes of the non-free blocks and never
\* exceeds total_size, so total_size - used_size does not underflow.
C7_UsedSizeIsSumOfUsedBlocks ==
    /\ used_size = SumSizes(blocks, TRUE)
    /\ used_size <= PoolSize
    /\ PoolSize - used_size >= 0

\* C7 witness: a block is freed while another stays allocated, in a pool
\* from which an earlier garbage collection has dropped blocks.
C7_Witness ==
    /\ lastCall.op = "deallocate"
    /\ lastCall.ok
    /\ used_size > 0
    /\ SumSizes(blocks, FALSE) < PoolSize

\* C8: allocate(size) is first-fit over the free list in its insertion order:
\* on success it returns the offset of the first entry of free_blocks whose
\* block has size >= size, that block becomes an allocated block of exactly
\* size and a larger block leaves its remainder as a new free block; it fails
\* exactly when no free block of the pool is large enough, and then the pool
\* is unchanged.
C8_AllocateIsFirstFit ==
    [][(poolCalls' = poolCalls + 1 /\ lastCall'.op = "allocate") =>
        LET size == lastCall'.arg
            free == {i \in 1..Len(blocks) : blocks[i].is_free}
        IN  IF \E i \in free : blocks[i].size >= size
            THEN /\ lastCall'.ok
                 /\ \E k \in 1..Len(free_blocks) :
                      LET idx == free_blocks[k]
                      IN  /\ idx \in free
                          /\ blocks[idx].size >= size
                          /\ \A m \in 1..(k - 1) :
                                 blocks[free_blocks[m]].size < size
                          /\ lastCall'.ret = blocks[idx].offset
                          /\ blocks'[idx].offset = blocks[idx].offset
                          /\ blocks'[idx].size = size
                          /\ ~blocks'[idx].is_free
                          /\ IF blocks[idx].size > size
                             THEN /\ Len(blocks') = Len(blocks) + 1
                                  /\ blocks'[Len(blocks')].is_free
                                  /\ blocks'[Len(blocks')].offset
                                         = blocks[idx].offset + size
                                  /\ blocks'[Len(blocks')].size
                                         = blocks[idx].size - size
                             ELSE Len(blocks') = Len(blocks)
                          /\ \A m \in (1..Len(blocks)) \ {idx} :
                                 blocks'[m] = blocks[m]
            ELSE /\ ~lastCall'.ok
                 /\ blocks' = blocks
                 /\ free_blocks' = free_blocks
                 /\ used_size' = used_size
      ]_vars

\* C8 witness: an allocation served from a block that is not the lowest free
\* one (the free list is in insertion order, not address order) and that was
\* split, its remainder being free right behind it.
C8_Witness ==
    /\ lastCall.op = "allocate"
    /\ lastCall.ok
    /\ lastCall.arg > 0
    /\ \E i, j \in 1..Len(blocks) :
           /\ blocks[i].is_free
           /\ blocks[i].offset < lastCall.ret
           /\ blocks[i].size >= lastCall.arg
           /\ blocks[j].is_free
           /\ blocks[j].offset = lastCall.ret + lastCall.arg

=============================================================================
